---- MODULE Spec2Model ----
(***************************************************************************)
(* Vehicle movement lifecycle of OmarSalvatierra99/vehiculos.              *)
(*                                                                         *)
(* The store is the SQLite database opened by DatabaseManager: the tables  *)
(* movimientos and movimientos_eventos, read and written by                *)
(* crear_movimiento, marcar_entregado, marcar_rechazado, marcar_devuelto   *)
(* and _generar_folio of src/scripts/utils.py.                             *)
(*                                                                         *)
(* Dates are day numbers (1, 2, ...): _hoy_iso() renders the current day   *)
(* as text and no code compares dates other than for equality with a day   *)
(* rendered the same way.  NULL is the SQL NULL of a nullable column.      *)
(*                                                                         *)
(* movimientos_eventos is kept per movement, in append order (the order of *)
(* the AUTOINCREMENT id among the rows of one movimiento_id).              *)
(***************************************************************************)
EXTENDS Integers, Sequences, FiniteSets, TLC

VARIABLES
    hoy,                  \* the current day, datetime.now()
    movimientos,          \* table movimientos: row id -> row
    movimientos_eventos,  \* table movimientos_eventos: movimiento_id -> events in append order
    resultado,            \* what the last call returned (its message) or raised
    llamadas,             \* concurrent calls of crear_movimiento: where each one is
    folio_generado,       \* what the last call of _generar_folio returned
    prestamos             \* table prestamos_vehiculos: row id -> row

vars == <<hoy, movimientos, movimientos_eventos, resultado, llamadas, folio_generado,
          prestamos>>

\* ------------------------------------------------------------------ bounds

\* Rows the store holds when the DatabaseManager is constructed.
MaxMov == 2
\* Last day the clock reaches.
MaxDia == 2
\* Concurrent calls of crear_movimiento.
NumLlamadas == 2
\* Rows of the stores _generar_folio is applied to.
MaxFilas == 3
\* Days the clock may show when a form is posted (day 1 is a Monday).
MaxHoy == 7
\* How many days ahead of today a form may ask for.
Horizonte == 8

\* ----------------------------------------------------------------- catalog

NULL == 0

UsuariosActivos == {1, 2, 4, 5}
UsuariosInactivos == {3}
\* The users who act on movements (role admin); 1 is the requester of the rows.
Administradores == {2}
VehiculosActivos == {1, 2}
VehiculosInactivos == {3}
AuditoresActivos == {1}
EntesActivos == {"SFP"}
\* Table usuarios_vehiculos: <<usuario_id, vehiculo_id>>.  Users 4 and 5 share
\* vehicle 2; the requester, user 1, has no assignment.
usuarios_vehiculos == {<<4, 2>>, <<5, 2>>}
\* The default of the parameter total of _limites_semana_laboral.
TotalDiasHabiles == 5

\* Movement ids a caller may pass: the rows of the store and one id past them.
Ids == 1..(MaxMov + 1)

Llamadas == 1..NumLlamadas

\* ------------------------------------------------------------------- store

\* The row crear_movimiento inserts: fecha_entrega and fecha_devolucion are
\* not in the column list (NULL), devuelto takes the schema default 0.
\* pasajeros holds the movement's rows of movimientos_auditores and
\* ruta_destino its rows of movimientos_destinos, in the order of orden.
FilaSolicitada(vehiculo_id, usuario_id, fecha_solicitud, folio, created_at) ==
    [ vehiculo_id      |-> vehiculo_id,
      usuario_id       |-> usuario_id,
      fecha_solicitud  |-> fecha_solicitud,
      fecha_entrega    |-> NULL,
      fecha_devolucion |-> NULL,
      devuelto         |-> 0,
      no_pasajeros     |-> 0,
      pasajeros        |-> <<>>,
      ruta_destino     |-> <<"SFP">>,
      folio            |-> folio,
      created_at       |-> created_at ]

\* INSERT INTO movimientos_eventos (movimiento_id, usuario_id, evento, fecha, notas)
registrar_evento(eventos, movimiento_id, usuario_id, evento) ==
    [eventos EXCEPT ![movimiento_id] =
        Append(@, [evento |-> evento, usuario_id |-> usuario_id, fecha |-> hoy])]

\* SELECT 1 FROM movimientos_eventos WHERE movimiento_id=? AND evento='RECHAZADO'
evento_rechazado(movimiento_id) ==
    \E i \in 1..Len(movimientos_eventos[movimiento_id]) :
        movimientos_eventos[movimiento_id][i].evento = "RECHAZADO"

\* ------------------------------------------------------------ marcar_entregado

\* marcar_entregado without the ledger lookup for RECHAZADO.
marcar_entregado_sin_rechazo(m) ==
    IF m \notin DOMAIN movimientos THEN "Movimiento no encontrado."
    ELSE IF movimientos[m].fecha_entrega # NULL THEN "El movimiento ya fue entregado."
    ELSE "Entrega registrada."

\* marcar_entregado with the RECHAZADO lookup only for movements of today.
marcar_entregado_rechazo_de_hoy(m) ==
    IF m \notin DOMAIN movimientos THEN "Movimiento no encontrado."
    ELSE IF evento_rechazado(m) /\ movimientos_eventos[m][2].fecha = hoy
         THEN "El movimiento fue rechazado."
    ELSE IF movimientos[m].fecha_entrega # NULL THEN "El movimiento ya fue entregado."
    ELSE "Entrega registrada."

marcar_entregado_msg(m) ==
    IF m \notin DOMAIN movimientos THEN "Movimiento no encontrado."
    ELSE IF evento_rechazado(m) THEN "El movimiento fue rechazado."
    ELSE IF movimientos[m].fecha_entrega # NULL THEN "El movimiento ya fue entregado."
    ELSE "Entrega registrada."

\* marcar_entregado without its call of _registrar_evento.
marcar_entregado_sin_evento(m, usuario_id) ==
    /\ resultado' = marcar_entregado_msg(m)
    /\ IF marcar_entregado_msg(m) = "Entrega registrada."
       THEN movimientos' = [movimientos EXCEPT ![m].fecha_entrega = hoy]
       ELSE UNCHANGED movimientos
    /\ UNCHANGED <<hoy, movimientos_eventos, llamadas, folio_generado, prestamos>>

marcar_entregado(m, usuario_id) ==
    /\ resultado' = marcar_entregado_msg(m)
    /\ IF marcar_entregado_msg(m) = "Entrega registrada."
       THEN /\ movimientos' = [movimientos EXCEPT ![m].fecha_entrega = hoy]
            /\ movimientos_eventos' =
                  registrar_evento(movimientos_eventos, m, usuario_id, "ENTREGADO")
       ELSE UNCHANGED <<movimientos, movimientos_eventos>>
    /\ UNCHANGED <<hoy, llamadas, folio_generado, prestamos>>

\* ------------------------------------------------------------ marcar_rechazado

\* marcar_rechazado without the ledger lookup for an earlier RECHAZADO.
marcar_rechazado_sin_consulta(m) ==
    IF m \notin DOMAIN movimientos THEN "Movimiento no encontrado."
    ELSE IF movimientos[m].fecha_entrega # NULL \/ movimientos[m].devuelto # 0
         THEN "No se puede rechazar un movimiento entregado."
    ELSE "Movimiento rechazado."

marcar_rechazado_msg(m) ==
    IF m \notin DOMAIN movimientos THEN "Movimiento no encontrado."
    ELSE IF movimientos[m].fecha_entrega # NULL \/ movimientos[m].devuelto # 0
         THEN "No se puede rechazar un movimiento entregado."
    ELSE IF evento_rechazado(m) THEN "El movimiento ya fue rechazado."
    ELSE "Movimiento rechazado."

\* marcar_rechazado writing a column of the row besides the event.
marcar_rechazado_con_columna(m, usuario_id) ==
    /\ resultado' = marcar_rechazado_msg(m)
    /\ IF marcar_rechazado_msg(m) = "Movimiento rechazado."
       THEN /\ movimientos_eventos' =
                  registrar_evento(movimientos_eventos, m, usuario_id, "RECHAZADO")
            /\ movimientos' = [movimientos EXCEPT ![m].devuelto = 1]
       ELSE UNCHANGED <<movimientos, movimientos_eventos>>
    /\ UNCHANGED <<hoy, llamadas, folio_generado, prestamos>>

marcar_rechazado(m, usuario_id) ==
    /\ resultado' = marcar_rechazado_msg(m)
    /\ IF marcar_rechazado_msg(m) = "Movimiento rechazado."
       THEN /\ movimientos_eventos' =
                  registrar_evento(movimientos_eventos, m, usuario_id, "RECHAZADO")
            /\ UNCHANGED movimientos
       ELSE UNCHANGED <<movimientos, movimientos_eventos>>
    /\ UNCHANGED <<hoy, llamadas, folio_generado, prestamos>>

\* ------------------------------------------------------------- marcar_devuelto

\* marcar_devuelto without the check for a registered delivery.
marcar_devuelto_sin_entrega(m) ==
    IF m \notin DOMAIN movimientos THEN "Movimiento no encontrado."
    ELSE IF movimientos[m].devuelto # 0 THEN "El movimiento ya esta devuelto."
    ELSE "Devolucion registrada."

\* marcar_devuelto without the check of the devuelto flag.
marcar_devuelto_repetido(m) ==
    IF m \notin DOMAIN movimientos THEN "Movimiento no encontrado."
    ELSE IF movimientos[m].fecha_entrega = NULL
         THEN "No se puede devolver sin entrega registrada."
    ELSE "Devolucion registrada."

marcar_devuelto_msg(m) ==
    IF m \notin DOMAIN movimientos THEN "Movimiento no encontrado."
    ELSE IF movimientos[m].devuelto # 0 THEN "El movimiento ya esta devuelto."
    ELSE IF movimientos[m].fecha_entrega = NULL
         THEN "No se puede devolver sin entrega registrada."
    ELSE "Devolucion registrada."

marcar_devuelto(m, usuario_id) ==
    /\ resultado' = marcar_devuelto_msg(m)
    /\ IF marcar_devuelto_msg(m) = "Devolucion registrada."
       THEN /\ movimientos' = [movimientos EXCEPT ![m].fecha_devolucion = hoy,
                                                  ![m].devuelto = 1]
            /\ movimientos_eventos' =
                  registrar_evento(movimientos_eventos, m, usuario_id, "DEVUELTO")
       ELSE UNCHANGED <<movimientos, movimientos_eventos>>
    /\ UNCHANGED <<hoy, llamadas, folio_generado, prestamos>>

\* --------------------------------------------------------------- _generar_folio

\* The decimal digits of n, most significant first.
RECURSIVE Digitos(_)
Digitos(n) ==
    IF n < 10 THEN <<n>> ELSE Append(Digitos(n \div 10), n % 10)

\* f"{contador:04d}": the digits, padded with zeros on the left to four.
Formato04(n) ==
    [i \in 1..(4 - Len(Digitos(n))) |-> 0] \o Digitos(n)

\* f"ACTA-{hoy}-{contador:04d}": the date part and the sequence part.
Folio(dia, contador) == [fecha |-> dia, secuencia |-> Formato04(contador)]

SinFolio == [fecha |-> NULL, secuencia |-> <<>>]

\* SELECT COUNT(*) FROM movimientos WHERE fecha_solicitud=<today>, plus one.
\* The column holds the date the trip was asked for (line 1503 stores the
\* caller's fecha_solicitud), not the date the row was inserted.
generar_folio ==
    Folio(hoy, Cardinality({m \in DOMAIN movimientos :
                               movimientos[m].fecha_solicitud = hoy}) + 1)

\* One call of _generar_folio on the store as it is.
GenerarFolio ==
    /\ folio_generado' = generar_folio
    /\ UNCHANGED <<hoy, movimientos, movimientos_eventos, resultado, llamadas, prestamos>>

\* Lines 1502-1554 of crear_movimiento, the part after the checks: one call of
\* _generar_folio and one INSERT.  folio is TEXT UNIQUE (line 265): when a row
\* has the folio the INSERT raises sqlite3.IntegrityError, which nothing
\* catches, and the connection is dropped with nothing committed.  Otherwise
\* the row and its SOLICITADO event are committed and the folio is returned.
crear_movimiento_insertar(vehiculo_id, usuario_id, fecha_solicitud) ==
    /\ folio_generado' = generar_folio
    /\ IF \E m \in DOMAIN movimientos : movimientos[m].folio = generar_folio
       THEN /\ resultado' = "IntegrityError"
            /\ UNCHANGED <<movimientos, movimientos_eventos>>
       ELSE /\ resultado' = "folio"
            /\ movimientos' =
                  Append(movimientos,
                         FilaSolicitada(vehiculo_id, usuario_id,
                                        IF fecha_solicitud = NULL THEN hoy
                                                                  ELSE fecha_solicitud,
                                        generar_folio, hoy))
            /\ movimientos_eventos' =
                  Append(movimientos_eventos,
                         << [evento |-> "SOLICITADO", usuario_id |-> usuario_id,
                             fecha |-> hoy] >>)
    /\ UNCHANGED <<hoy, llamadas, prestamos>>

\* ------------------------------------------------------------ crear_movimiento

motivos_validos ==
    { "Notificacion de Oficio", "Revision de Auditoria", "Entrega de Recepcion",
      "Compulsas", "Inspeccion Fisica" }

\* The in-use query restricted to deliveries of the current day.
unidad_en_uso_hoy(vehiculo_id) ==
    \E m \in DOMAIN movimientos :
        /\ movimientos[m].vehiculo_id = vehiculo_id
        /\ movimientos[m].fecha_entrega = hoy
        /\ movimientos[m].devuelto = 0

\* SELECT 1 FROM movimientos WHERE vehiculo_id=? AND fecha_entrega IS NOT NULL
\* AND devuelto=0 LIMIT 1
unidad_en_uso(vehiculo_id) ==
    \E m \in DOMAIN movimientos :
        /\ movimientos[m].vehiculo_id = vehiculo_id
        /\ movimientos[m].fecha_entrega # NULL
        /\ movimientos[m].devuelto = 0

\* _obtener_responsable without the lookup in the catalogue.
obtener_responsable_sin_catalogo(responsable_tipo, responsable_id) ==
    responsable_id # NULL

\* Whether _obtener_responsable returns a row (an active auditor for the tipo
\* "auditor", an active user otherwise).
obtener_responsable(responsable_tipo, responsable_id) ==
    /\ responsable_id # NULL
    /\ IF responsable_tipo = "auditor"
       THEN responsable_id \in AuditoresActivos
       ELSE responsable_id \in UsuariosActivos

\* crear_movimiento with the responsible-party lookup ahead of the in-use
\* query.
crear_movimiento_responsable_primero(req) ==
    IF req.vehiculo_id = NULL THEN "Falta el dato de vehiculo."
    ELSE IF req.responsable_usuario_id = NULL THEN "Falta el dato de responsable."
    ELSE IF req.ruta_destinos = <<>> THEN "Falta el dato de ruta."
    ELSE IF req.motivo_salida = "" THEN "Falta el dato de motivo."
    ELSE IF req.no_pasajeros > 0 /\ req.pasajeros_ids = <<>>
         THEN "Falta el dato de nombres_pasajeros."
    ELSE IF req.motivo_salida \notin motivos_validos THEN "Motivo de salida no valido."
    ELSE IF req.usuario_id \notin UsuariosActivos
         THEN "Usuario no encontrado para resguardo."
    ELSE IF req.vehiculo_id \notin VehiculosActivos THEN "Vehiculo no encontrado."
    ELSE IF ~obtener_responsable(req.responsable_tipo, req.responsable_usuario_id)
         THEN "Responsable no encontrado."
    ELSE IF unidad_en_uso(req.vehiculo_id) THEN "La unidad ya esta en uso."
    ELSE ""

\* The checks of crear_movimiento up to the responsible-party lookup, in their
\* order: the message returned, or "" when the call gets past them.  Past them,
\* line 1466 or line 1467 reads the local no_pasajeros_int, which
\* crear_movimiento assigns nowhere before: every call that gets that far
\* raises UnboundLocalError, before any statement writes.
crear_movimiento_validacion(req) ==
    IF req.vehiculo_id = NULL THEN "Falta el dato de vehiculo."
    ELSE IF req.responsable_usuario_id = NULL THEN "Falta el dato de responsable."
    ELSE IF req.ruta_destinos = <<>> THEN "Falta el dato de ruta."
    ELSE IF req.motivo_salida = "" THEN "Falta el dato de motivo."
    ELSE IF req.no_pasajeros > 0 /\ req.pasajeros_ids = <<>>
         THEN "Falta el dato de nombres_pasajeros."
    ELSE IF req.motivo_salida \notin motivos_validos THEN "Motivo de salida no valido."
    ELSE IF req.usuario_id \notin UsuariosActivos
         THEN "Usuario no encontrado para resguardo."
    ELSE IF req.vehiculo_id \notin VehiculosActivos THEN "Vehiculo no encontrado."
    ELSE IF unidad_en_uso(req.vehiculo_id) THEN "La unidad ya esta en uso."
    ELSE IF ~obtener_responsable(req.responsable_tipo, req.responsable_usuario_id)
         THEN "Responsable no encontrado."
    ELSE ""

crear_movimiento_msg(req) ==
    IF crear_movimiento_validacion(req) # ""
    THEN crear_movimiento_validacion(req)
    ELSE "UnboundLocalError"

crear_movimiento(req) ==
    /\ resultado' = crear_movimiento_msg(req)
    /\ UNCHANGED <<hoy, movimientos, movimientos_eventos, llamadas, folio_generado, prestamos>>

\* The requests a caller makes: a well-formed one for each vehicle, for today
\* and for tomorrow, and the one for vehicle 1 with one argument changed.
SolicitudBase(vehiculo_id, fecha_solicitud) ==
    [ usuario_id             |-> 1,
      vehiculo_id            |-> vehiculo_id,
      responsable_usuario_id |-> 1,
      responsable_tipo       |-> "auditor",
      no_pasajeros           |-> 0,
      pasajeros_ids          |-> <<>>,
      ruta_destinos          |-> <<"SFP">>,
      motivo_salida          |-> "Compulsas",
      fecha_solicitud        |-> fecha_solicitud ]

Variantes(b) ==
    { b,
      [b EXCEPT !.usuario_id = 3],
      [b EXCEPT !.responsable_usuario_id = NULL],
      [b EXCEPT !.responsable_usuario_id = 9],
      [b EXCEPT !.responsable_tipo = "usuario"],
      [b EXCEPT !.motivo_salida = ""],
      [b EXCEPT !.motivo_salida = "Acta de Cierre"],
      [b EXCEPT !.ruta_destinos = <<>>],
      [b EXCEPT !.no_pasajeros = 1],
      [b EXCEPT !.no_pasajeros = 1, !.pasajeros_ids = <<1>>] }

Solicitudes ==
    Variantes(SolicitudBase(1, hoy))
    \cup { SolicitudBase(v, f) : v \in VehiculosActivos, f \in {hoy, hoy + 1} }
    \cup { SolicitudBase(v, hoy) : v \in {NULL} \cup VehiculosInactivos }

\* ------------------------------------------------------- the request handler

\* A form field as text: the digits of a number, or some other text.
Num(k) == [num |-> TRUE, n |-> k]
NoNum == [num |-> FALSE, n |-> NULL]

\* date.weekday(): Monday is 0, Sunday is 6.  Day 1 is a Monday.
dia_semana(d) == (d - 1) % 7

\* The loop of _limites_semana_laboral: fin moves a day at a time until
\* `total` business days are counted.
RECURSIVE avanzar_fin(_, _)
avanzar_fin(fin, dias_contados) ==
    IF dias_contados < TotalDiasHabiles
    THEN avanzar_fin(fin + 1,
                     IF dia_semana(fin + 1) < 5 THEN dias_contados + 1
                                                ELSE dias_contados)
    ELSE fin

\* _limites_semana_laboral with the Monday of the current week as inicio.
limites_semana_actual(base) ==
    << base - dia_semana(base), base - dia_semana(base) + 4 >>

\* _limites_semana_laboral(base): <<inicio, fin>>.
limites_semana_laboral(base) ==
    LET inicio == IF dia_semana(base) >= 5
                  THEN base + ((7 - dia_semana(base)) % 7)
                  ELSE base
    IN  << inicio, avanzar_fin(inicio, 1) >>

\* _fecha_laboral_valida(fecha_txt)
fecha_laboral_valida(fecha) ==
    /\ fecha.num
    /\ dia_semana(fecha.n) < 5
    /\ limites_semana_laboral(hoy)[1] <= fecha.n
    /\ fecha.n <= limites_semana_laboral(hoy)[2]

\* _parse_responsable_ref(raw): <<tipo, id>>, <<"", NULL>> for (None, None).
parse_responsable_ref(raw) ==
    IF raw.prefijo
    THEN IF raw.id.num THEN <<"auditor", raw.id.n>> ELSE <<"", NULL>>
    ELSE IF raw.id.num THEN <<"usuario", raw.id.n>> ELSE <<"", NULL>>

\* The reasons the handler lets through (app.py 608-615).
motivos_validos_solicitar ==
    { "Notificacion de Oficio", "Revision de Auditoria", "Entrega de Recepcion",
      "Acta de Cierre", "Compulsas", "Inspeccion Fisica" }

\* listar_vehiculos without the query of the user's assignments.
listar_vehiculos_sin_relacion(usuario_id) == VehiculosActivos

\* listar_vehiculos(usuario_id): the active vehicles assigned to the user, or
\* every active vehicle when the user has no assignment.
listar_vehiculos(usuario_id) ==
    IF \E uv \in usuarios_vehiculos : uv[1] = usuario_id
    THEN { v \in VehiculosActivos : <<usuario_id, v>> \in usuarios_vehiculos }
    ELSE VehiculosActivos

\* listar_vehiculos_disponibles without the test of devuelto.
listar_vehiculos_disponibles_sin_devuelto ==
    { v \in VehiculosActivos :
        ~\E m \in DOMAIN movimientos :
            /\ movimientos[m].vehiculo_id = v
            /\ movimientos[m].fecha_entrega # NULL
            /\ ~evento_rechazado(m) }

\* listar_vehiculos_disponibles: the active vehicles for which NOT EXISTS a
\* movement with fecha_entrega IS NOT NULL AND devuelto=0 that has no RECHAZADO
\* event.  The query does not read prestamos_vehiculos.
listar_vehiculos_disponibles ==
    { v \in VehiculosActivos :
        ~\E m \in DOMAIN movimientos :
            /\ movimientos[m].vehiculo_id = v
            /\ movimientos[m].fecha_entrega # NULL
            /\ movimientos[m].devuelto = 0
            /\ ~evento_rechazado(m) }

\* contar_vehiculos_disponibles: (total, disponibles), the active vehicles and
\* max(total - en_uso, 0), en_uso being COUNT(DISTINCT vehiculo_id) over the
\* delivered, not returned, not rejected movements of any vehicle.
contar_vehiculos_disponibles ==
    LET total == Cardinality(VehiculosActivos)
        en_uso == Cardinality({ movimientos[m].vehiculo_id :
                      m \in { x \in DOMAIN movimientos :
                                /\ movimientos[x].vehiculo_id # NULL
                                /\ movimientos[x].fecha_entrega # NULL
                                /\ movimientos[x].devuelto = 0
                                /\ ~evento_rechazado(x) } })
    IN  << total, IF total - en_uso > 0 THEN total - en_uso ELSE 0 >>

\* The arguments solicitar passes to crear_movimiento (app.py 698-714).
SolicitudDe(form) ==
    [ usuario_id             |-> form.usuario_id,
      vehiculo_id            |-> form.vehiculo_raw.n,
      responsable_usuario_id |-> parse_responsable_ref(form.responsable_raw)[2],
      responsable_tipo       |-> parse_responsable_ref(form.responsable_raw)[1],
      no_pasajeros           |-> form.no_pasajeros_txt.n,
      pasajeros_ids          |-> [i \in 1..Len(form.pasajeros_ids) |->
                                     form.pasajeros_ids[i].n],
      ruta_destinos          |-> form.ruta_destinos,
      motivo_salida          |-> form.motivo_salida,
      fecha_solicitud        |-> form.fecha_solicitud.n ]

\* The checks of solicitar for a request that is not a loan, in their order:
\* the error it renders, or "" when it goes on to call crear_movimiento.
solicitar_validacion(form) ==
    IF ~form.vehiculo_raw.num \/ form.vehiculo_raw.n = 0
    THEN "Falta seleccionar la unidad."
    ELSE IF parse_responsable_ref(form.responsable_raw)[1] = ""
         THEN "Falta seleccionar al responsable del vehiculo."
    ELSE IF ~form.no_pasajeros_txt.num THEN "El numero de pasajeros debe ser numerico."
    ELSE IF form.no_pasajeros_txt.n > 4
         THEN "El numero de pasajeros no puede exceder 4 (maximo 5 ocupantes incluyendo al conductor)."
    ELSE IF Len(form.pasajeros_ids) # form.no_pasajeros_txt.n
         THEN "El numero de pasajeros debe coincidir con los nombres seleccionados."
    ELSE IF \E i \in 1..Len(form.pasajeros_ids) : ~form.pasajeros_ids[i].num
         THEN "La lista de pasajeros no es valida."
    ELSE IF form.ruta_destinos = <<>> THEN "Falta seleccionar la ruta destino."
    ELSE IF form.motivo_salida \notin motivos_validos_solicitar
         THEN "El motivo de salida no es valido."
    ELSE IF ~form.fecha_solicitud.num THEN "La fecha de solicitud no es valida."
    ELSE IF ~fecha_laboral_valida(form.fecha_solicitud)
         THEN "La fecha de salida debe estar dentro de los dias habiles permitidos."
    ELSE IF form.vehiculo_raw.n \notin listar_vehiculos(form.usuario_id)
         THEN "La unidad seleccionada no es valida."
    ELSE ""

\* What solicitar answers: its own error, the message crear_movimiento
\* returned, or the answer of handle_unexpected_error (app.py 117-123) when
\* crear_movimiento raised.
solicitar_msg(form) ==
    IF solicitar_validacion(form) # "" THEN solicitar_validacion(form)
    ELSE IF crear_movimiento_msg(SolicitudDe(form)) = "UnboundLocalError"
         THEN "Error interno del servidor"
    ELSE crear_movimiento_msg(SolicitudDe(form))

solicitar(form) ==
    /\ resultado' = solicitar_msg(form)
    /\ UNCHANGED <<hoy, movimientos, movimientos_eventos, llamadas, folio_generado, prestamos>>

\* The forms a requester posts: each field takes its well-formed value or one
\* of a few others, in every combination, and the well-formed form is posted
\* for every date from yesterday to Horizonte days ahead.
Formulario(usuario_id, vehiculo_raw, responsable_raw, no_pasajeros_txt, pasajeros_ids, ruta_destinos, motivo_salida, fecha_solicitud) ==
    [ usuario_id       |-> usuario_id,
      vehiculo_raw     |-> vehiculo_raw,
      responsable_raw  |-> responsable_raw,
      no_pasajeros_txt |-> no_pasajeros_txt,
      pasajeros_ids    |-> pasajeros_ids,
      ruta_destinos    |-> ruta_destinos,
      motivo_salida    |-> motivo_salida,
      fecha_solicitud  |-> fecha_solicitud ]

FormularioBase(fecha_solicitud) ==
    Formulario(1, Num(1), [prefijo |-> TRUE, id |-> Num(1)], Num(0), <<>>,
               <<"SFP">>, "Compulsas", fecha_solicitud)

Formularios ==
    { Formulario(1, v, r, n[1], n[2], d, m, f) :
        v \in {Num(1), Num(3), NoNum},
        r \in { [prefijo |-> TRUE, id |-> Num(1)], [prefijo |-> TRUE, id |-> Num(9)],
                [prefijo |-> TRUE, id |-> NoNum] },
        n \in { <<Num(0), <<>>>>, <<Num(1), <<Num(1)>>>>, <<Num(2), <<Num(1)>>>>,
                <<Num(1), <<NoNum>>>> },
        d \in { <<"SFP">>, <<"SFP", "XXX">>, <<>> },
        m \in { "Compulsas", "Acta de Cierre", "compulsas" },
        f \in { Num(hoy), Num(hoy + 7), NoNum } }
    \cup { FormularioBase(Num(f)) : f \in (hoy - 1)..(hoy + Horizonte) }
    \cup { [FormularioBase(Num(hoy)) EXCEPT !.usuario_id = 3],
           [FormularioBase(Num(hoy)) EXCEPT !.responsable_raw =
                                               [prefijo |-> FALSE, id |-> Num(1)]],
           [FormularioBase(Num(hoy)) EXCEPT !.no_pasajeros_txt = Num(5)],
           [FormularioBase(Num(hoy)) EXCEPT !.no_pasajeros_txt = NoNum],
           [FormularioBase(Num(hoy)) EXCEPT !.vehiculo_raw = Num(2)] }

\* ------------------------------------------------------------- loan requests

\* How many business days after today a loan can be asked for.
DiasPrestamo == 4

\* The while loop collecting the next days without looking at the weekday.
RECURSIVE siguientes_naturales(_, _)
siguientes_naturales(cursor, siguientes) ==
    IF Cardinality(siguientes) < DiasPrestamo
    THEN siguientes_naturales(cursor + 1, siguientes \cup {cursor})
    ELSE siguientes

\* The while loop of solicitar_prestamo that collects the next business days.
RECURSIVE siguientes_habiles(_, _)
siguientes_habiles(cursor, siguientes) ==
    IF Cardinality(siguientes) < DiasPrestamo
    THEN siguientes_habiles(cursor + 1,
                            IF dia_semana(cursor) < 5 THEN siguientes \cup {cursor}
                                                      ELSE siguientes)
    ELSE siguientes

\* clave.strip().upper() on the keys the forms carry.
mayusculas(clave) == IF clave = "sfp" THEN "SFP" ELSE clave

\* The passenger list and count after the responsible auditor is taken out of
\* the list and the list is emptied for a count of zero.
pasajeros_prestamo(sol) ==
    LET presente(pid) == pid # NULL
        otro(pid) == pid # sol.responsable_usuario_id
        ids == SelectSeq(sol.pasajeros_ids, presente)
        es_pasajero == /\ sol.responsable_tipo = "auditor"
                       /\ \E i \in 1..Len(ids) : ids[i] = sol.responsable_usuario_id
        n == IF es_pasajero
             THEN (IF sol.no_pasajeros - 1 > 0 THEN sol.no_pasajeros - 1 ELSE 0)
             ELSE sol.no_pasajeros
    IN  [ ids |-> IF n = 0 THEN <<>> ELSE IF es_pasajero THEN SelectSeq(ids, otro) ELSE ids,
          n   |-> n ]

\* The occupation query without its condition devuelto=0.
ocupacion_con_devueltos(vehiculo_id) ==
    LET entregados == { m \in DOMAIN movimientos :
                          /\ movimientos[m].vehiculo_id = vehiculo_id
                          /\ movimientos[m].fecha_entrega # NULL }
    IN  IF entregados = {} THEN NULL
        ELSE CHOOSE f \in { movimientos[m].fecha_entrega : m \in entregados } :
                 \A m \in entregados : movimientos[m].fecha_entrega <= f

\* SELECT fecha_entrega FROM movimientos WHERE vehiculo_id=? AND fecha_entrega
\* IS NOT NULL AND devuelto=0 ORDER BY fecha_entrega DESC LIMIT 1 (NULL: no row)
ocupacion(vehiculo_id) ==
    LET abiertos == { m \in DOMAIN movimientos :
                        /\ movimientos[m].vehiculo_id = vehiculo_id
                        /\ movimientos[m].fecha_entrega # NULL
                        /\ movimientos[m].devuelto = 0 }
    IN  IF abiertos = {} THEN NULL
        ELSE CHOOSE f \in { movimientos[m].fecha_entrega : m \in abiertos } :
                 \A m \in abiertos : movimientos[m].fecha_entrega <= f

ocupado_msg(fecha_en_uso) ==
    "El vehiculo esta ocupado desde " \o ToString(fecha_en_uso) \o ". ("
        \o ToString(IF hoy - fecha_en_uso > 0 THEN hoy - fecha_en_uso ELSE 0) \o " dias)"

\* if solicitante_id == propietario_id, never true.
es_propio_nunca(solicitante_id, propietario_id) == FALSE

\* if solicitante_id == propietario_id (line 1134)
es_propio(solicitante_id, propietario_id) == solicitante_id = propietario_id

\* The assignment query answering for any vehicle of the user.
asignado_algun_vehiculo(usuario_id, vehiculo_id) ==
    \E uv \in usuarios_vehiculos : uv[1] = usuario_id

\* SELECT 1 FROM usuarios_vehiculos WHERE usuario_id=? AND vehiculo_id=?
asignado(usuario_id, vehiculo_id) == <<usuario_id, vehiculo_id>> \in usuarios_vehiculos

\* The count of PENDIENTE loans always zero.
pendientes_ninguno(sol) == 0

\* SELECT COUNT(*) FROM prestamos_vehiculos WHERE solicitante_id=? AND
\* propietario_id=? AND vehiculo_id=? AND estado='PENDIENTE'
pendientes(sol) ==
    Cardinality({ l \in DOMAIN prestamos :
                     /\ prestamos[l].solicitante_id = sol.solicitante_id
                     /\ prestamos[l].propietario_id = sol.propietario_id
                     /\ prestamos[l].vehiculo_id = sol.vehiculo_id
                     /\ prestamos[l].estado = "PENDIENTE" })

\* What solicitar_prestamo returns: the message of the first check that fails,
\* or the message of success.
solicitar_prestamo_msg(sol) ==
    LET pas == pasajeros_prestamo(sol)
        destinos == [i \in 1..Len(sol.ruta_destinos) |-> mayusculas(sol.ruta_destinos[i])]
    IN
    IF es_propio(sol.solicitante_id, sol.propietario_id)
         THEN "No puede solicitar un prestamo de su propio vehiculo."
    ELSE IF sol.vehiculo_id = NULL THEN "Falta el dato de vehiculo."
    ELSE IF sol.responsable_usuario_id = NULL THEN "Falta el dato de responsable."
    ELSE IF sol.fechas_solicitadas = <<>> THEN "Falta el dato de fechas."
    ELSE IF sol.ruta_destinos = <<>> THEN "Falta el dato de ruta."
    ELSE IF sol.motivo_salida = "" THEN "Falta el dato de motivo."
    ELSE IF sol.no_pasajeros > 0 /\ sol.pasajeros_ids = <<>>
         THEN "Falta el dato de nombres_pasajeros."
    ELSE IF sol.motivo_salida \notin motivos_validos THEN "Motivo de salida no valido."
    ELSE IF \E i \in 1..Len(sol.fechas_solicitadas) : ~sol.fechas_solicitadas[i].num
         THEN "Formato de fecha no valido para el prestamo."
    ELSE IF Len(sol.fechas_solicitadas) > 1
         THEN "Solo se permite solicitar un dia por prestamo."
    ELSE IF sol.fechas_solicitadas[1].n \notin siguientes_habiles(hoy + 1, {})
         THEN "Las fechas deben estar dentro de los siguientes 4 dias habiles."
    ELSE IF ~asignado(sol.propietario_id, sol.vehiculo_id)
         THEN "El vehiculo no esta asignado al usuario seleccionado."
    ELSE IF asignado(sol.solicitante_id, sol.vehiculo_id)
         THEN "El vehiculo ya esta asignado al solicitante."
    ELSE IF ocupacion(sol.vehiculo_id) # NULL THEN ocupado_msg(ocupacion(sol.vehiculo_id))
    ELSE IF ~obtener_responsable(sol.responsable_tipo, sol.responsable_usuario_id)
         THEN "Responsable no encontrado."
    ELSE IF \E i, j \in 1..Len(pas.ids) : i # j /\ pas.ids[i] = pas.ids[j]
         THEN "Pasajeros duplicados en la seleccion."
    ELSE IF \E i \in 1..Len(pas.ids) : pas.ids[i] \notin AuditoresActivos
         THEN "Pasajeros no encontrados."
    ELSE IF pas.n # Len(pas.ids) THEN "El numero de pasajeros no coincide."
    ELSE IF \E i \in 1..Len(destinos) : destinos[i] \notin EntesActivos
         THEN "Destinos no encontrados en catalogo de entes."
    ELSE IF pendientes(sol) > 0
         THEN "Ya existe una solicitud pendiente para este vehiculo."
    ELSE "Solicitud de prestamo registrada."

\* The row solicitar_prestamo inserts. responsable_nombre is the nombre of the
\* auditor or user that was found, written as the kind and id of its row;
\* responsable_id is the user's id, and NULL for an auditor.
FilaPrestamo(sol) ==
    [ solicitante_id     |-> sol.solicitante_id,
      propietario_id     |-> sol.propietario_id,
      vehiculo_id        |-> sol.vehiculo_id,
      fecha_solicitud    |-> hoy,
      estado             |-> "PENDIENTE",
      responsable_id     |-> IF sol.responsable_tipo = "auditor"
                             THEN NULL ELSE sol.responsable_usuario_id,
      responsable_nombre |-> IF sol.responsable_tipo = "auditor"
                             THEN <<"auditores", sol.responsable_usuario_id>>
                             ELSE <<"usuarios", sol.responsable_usuario_id>>,
      no_pasajeros       |-> pasajeros_prestamo(sol).n,
      pasajeros_ids      |-> pasajeros_prestamo(sol).ids,
      ruta_destino       |-> [i \in 1..Len(sol.ruta_destinos) |->
                                 mayusculas(sol.ruta_destinos[i])],
      motivo_salida      |-> sol.motivo_salida,
      fechas_solicitadas |-> << sol.fechas_solicitadas[1].n >> ]

solicitar_prestamo(sol) ==
    /\ resultado' = solicitar_prestamo_msg(sol)
    /\ prestamos' = IF solicitar_prestamo_msg(sol) = "Solicitud de prestamo registrada."
                    THEN Append(prestamos, FilaPrestamo(sol))
                    ELSE prestamos
    /\ UNCHANGED <<hoy, movimientos, movimientos_eventos, llamadas, folio_generado>>

\* The arguments solicitar passes to solicitar_prestamo for a loan form.
PrestamoDe(form) ==
    [ solicitante_id         |-> form.usuario_id,
      propietario_id         |-> form.propietario_raw.n,
      vehiculo_id            |-> form.vehiculo_raw.n,
      responsable_usuario_id |-> parse_responsable_ref(form.responsable_raw)[2],
      responsable_tipo       |-> parse_responsable_ref(form.responsable_raw)[1],
      no_pasajeros           |-> form.no_pasajeros_txt.n,
      pasajeros_ids          |-> [i \in 1..Len(form.pasajeros_ids) |->
                                     form.pasajeros_ids[i].n],
      fechas_solicitadas     |-> << form.fecha_solicitud >>,
      ruta_destinos          |-> form.ruta_destinos,
      motivo_salida          |-> form.motivo_salida ]

\* The checks of solicitar on a form whose tipo_solicitud is "prestamo"; the
\* two date checks are skipped for a loan.
solicitar_es_prestamo_validacion(form) ==
    IF ~form.vehiculo_raw.num \/ form.vehiculo_raw.n = 0
         THEN "Falta seleccionar la unidad."
    ELSE IF \/ ~form.propietario_raw.num
            \/ form.propietario_raw.n = 0
            \/ form.propietario_raw.n = form.usuario_id
         THEN "Seleccione una unidad asignada a otro usuario para el prestamo."
    ELSE IF parse_responsable_ref(form.responsable_raw)[1] = ""
         THEN "Falta seleccionar al responsable del vehiculo."
    ELSE IF ~form.no_pasajeros_txt.num THEN "El numero de pasajeros debe ser numerico."
    ELSE IF form.no_pasajeros_txt.n > 4
         THEN "El numero de pasajeros no puede exceder 4 (maximo 5 ocupantes incluyendo al conductor)."
    ELSE IF Len(form.pasajeros_ids) # form.no_pasajeros_txt.n
         THEN "El numero de pasajeros debe coincidir con los nombres seleccionados."
    ELSE IF \E i \in 1..Len(form.pasajeros_ids) : ~form.pasajeros_ids[i].num
         THEN "La lista de pasajeros no es valida."
    ELSE IF form.ruta_destinos = <<>> THEN "Falta seleccionar la ruta destino."
    ELSE IF form.motivo_salida \notin motivos_validos_solicitar
         THEN "El motivo de salida no es valido."
    ELSE ""

solicitar_es_prestamo_msg(form) ==
    IF solicitar_es_prestamo_validacion(form) # ""
    THEN solicitar_es_prestamo_validacion(form)
    ELSE solicitar_prestamo_msg(PrestamoDe(form))

solicitar_es_prestamo(form) ==
    IF solicitar_es_prestamo_validacion(form) # ""
    THEN /\ resultado' = solicitar_es_prestamo_validacion(form)
         /\ UNCHANGED <<hoy, movimientos, movimientos_eventos, llamadas, folio_generado,
                        prestamos>>
    ELSE solicitar_prestamo(PrestamoDe(form))

\* The loan forms a requester posts: the well-formed form for every date from
\* today to Horizonte days ahead and for an unreadable date, with each kind of
\* responsible-party reference, and the well-formed form with one field changed.
FormularioPrestamo(usuario_id, vehiculo_raw, propietario_raw, responsable_raw, fecha_solicitud) ==
    [ usuario_id       |-> usuario_id,
      vehiculo_raw     |-> vehiculo_raw,
      propietario_raw  |-> propietario_raw,
      responsable_raw  |-> responsable_raw,
      no_pasajeros_txt |-> Num(0),
      pasajeros_ids    |-> <<>>,
      ruta_destinos    |-> <<"SFP">>,
      motivo_salida    |-> "Compulsas",
      fecha_solicitud  |-> fecha_solicitud ]

ReferenciasResponsable ==
    { [prefijo |-> TRUE, id |-> Num(1)], [prefijo |-> TRUE, id |-> Num(9)],
      [prefijo |-> TRUE, id |-> NoNum], [prefijo |-> FALSE, id |-> Num(4)],
      [prefijo |-> FALSE, id |-> Num(3)], [prefijo |-> FALSE, id |-> NoNum] }

PrestamoBase == FormularioPrestamo(1, Num(2), Num(4), [prefijo |-> TRUE, id |-> Num(1)],
                                   Num(hoy + 1))

FormulariosPrestamo ==
    { FormularioPrestamo(1, Num(2), Num(4), r, f) :
        r \in ReferenciasResponsable,
        f \in { Num(d) : d \in hoy..(hoy + Horizonte) } \cup { NoNum } }
    \cup { [PrestamoBase EXCEPT !.vehiculo_raw = v[1], !.propietario_raw = v[2]] :
            v \in { <<Num(1), Num(4)>>, <<Num(2), Num(1)>>, <<Num(2), NoNum>>,
                    <<NoNum, Num(4)>> } }
    \cup { [PrestamoBase EXCEPT !.no_pasajeros_txt = n[1], !.pasajeros_ids = n[2]] :
            n \in { <<Num(1), <<Num(1)>>>>, <<Num(2), <<Num(1)>>>>,
                    <<Num(1), <<Num(9)>>>> } }
    \cup { [PrestamoBase EXCEPT !.ruta_destinos = d] :
            d \in { <<"sfp">>, <<"SFP", "XXX">>, <<>> } }
    \cup { [PrestamoBase EXCEPT !.motivo_salida = "Acta de Cierre"],
           [PrestamoBase EXCEPT !.usuario_id = 4, !.propietario_raw = Num(1)] }

\* The calls of solicitar_prestamo: every pair of solicitor and owner with
\* every list of dates, and the well-formed call with one argument changed.
SolicitudPrestamo(solicitante_id, propietario_id, fechas_solicitadas) ==
    [ solicitante_id         |-> solicitante_id,
      propietario_id         |-> propietario_id,
      vehiculo_id            |-> 2,
      responsable_usuario_id |-> 1,
      responsable_tipo       |-> "auditor",
      no_pasajeros           |-> 0,
      pasajeros_ids          |-> <<>>,
      fechas_solicitadas     |-> fechas_solicitadas,
      ruta_destinos          |-> <<"SFP">>,
      motivo_salida          |-> "Compulsas" ]

ListasDeFechas ==
    { << Num(d) >> : d \in (hoy - 1)..(hoy + Horizonte) }
    \cup { <<>>, << NoNum >>, << Num(hoy + 1), Num(hoy + 2) >>,
           << Num(hoy + 1), Num(hoy + 1) >>, << Num(hoy + 1), NoNum >> }

SolicitudesPrestamo ==
    { SolicitudPrestamo(par[1], par[2], fechas) :
        par \in { <<1, 4>>, <<4, 4>>, <<1, 1>>, <<4, 5>>, <<1, 3>> },
        fechas \in ListasDeFechas }
    \cup { [SolicitudPrestamo(par[1], par[2], << Num(hoy + 1) >>) EXCEPT
              !.vehiculo_id = v, !.motivo_salida = m] :
            par \in { <<1, 4>>, <<4, 4>>, <<1, 5>> },
            v \in { 1, 2, NULL }, m \in { "Compulsas", "Acta de Cierre" } }
    \cup { [SolicitudPrestamo(4, 4, << Num(hoy + 1) >>) EXCEPT
              !.responsable_usuario_id = r, !.ruta_destinos = d] :
            r \in { 1, 9, NULL }, d \in { <<"SFP">>, <<"XXX">>, <<>> } }

\* The movement forms with each kind of responsible-party reference.
FormulariosResponsable ==
    { [FormularioBase(Num(hoy)) EXCEPT !.responsable_raw = r] :
        r \in ReferenciasResponsable }

\* ------------------------------------- crear_movimiento, statement by statement

\* A call of crear_movimiento that has not started: nothing returned, no folio.
LlamadaInicial ==
    [pc |-> "inicio", req |-> SolicitudBase(NULL, NULL), msg |-> "", folio |-> SinFolio]

\* Lines 1399-1461 of call p: the checks up to the responsible-party lookup.
\* Only the in-use query reads rows another call could write, so the checks
\* are one step.  A failed check returns its message; otherwise the call goes on
\* to the passenger block.
c_validar(p, req) ==
    /\ llamadas[p].pc = "inicio"
    /\ llamadas' = [llamadas EXCEPT ![p] =
          [@ EXCEPT !.req = req,
                    !.msg = crear_movimiento_validacion(req),
                    !.pc  = IF crear_movimiento_validacion(req) = ""
                            THEN "pasajeros" ELSE "retorno"]]
    /\ UNCHANGED <<hoy, movimientos, movimientos_eventos, resultado, folio_generado, prestamos>>

\* Lines 1463-1467 of call p: the read of no_pasajeros_int raises, the call
\* ends there, before _generar_folio (1502) and the INSERT (1507).
c_pasajeros(p) ==
    /\ llamadas[p].pc = "pasajeros"
    /\ llamadas' = [llamadas EXCEPT ![p] =
          [@ EXCEPT !.msg = "UnboundLocalError", !.pc = "excepcion"]]
    /\ UNCHANGED <<hoy, movimientos, movimientos_eventos, resultado, folio_generado, prestamos>>

\* ------------------------------------------------------- limpiar_movimientos

\* limpiar_movimientos that deletes the ledger and keeps the movements.
limpiar_solo_eventos ==
    /\ movimientos_eventos' = [m \in DOMAIN movimientos |-> <<>>]
    /\ resultado' = "Historial de movimientos limpiado."
    /\ UNCHANGED <<hoy, movimientos, llamadas, folio_generado, prestamos>>

\* The maintenance script run with its default flags (reset_stock and
\* limpiar_vehiculos off): DELETE FROM movimientos_eventos, movimientos_destinos,
\* movimientos_auditores and movimientos, one commit, and main prints its line.
limpiar_movimientos ==
    /\ movimientos_eventos' = <<>>
    /\ movimientos' = <<>>
    /\ resultado' = "Historial de movimientos limpiado."
    /\ UNCHANGED <<hoy, llamadas, folio_generado, prestamos>>

\* ----------------------------------------------------------------- the clock

PasaDia ==
    /\ hoy < MaxDia
    /\ hoy' = hoy + 1
    /\ UNCHANGED <<movimientos, movimientos_eventos, resultado, llamadas, folio_generado, prestamos>>

\* ------------------------------------------------------------- specification

\* The store as DatabaseManager.__init__ finds it: _init_db creates the tables
\* only IF NOT EXISTS and _migrate_schema copies the rows of movimientos, so
\* the movements requested before the process started are there, each as
\* crear_movimiento's INSERT and _registrar_evento(SOLICITADO) wrote it.
\* Which vehicle each of the n rows is for.  The two active vehicles are
\* interchangeable and so are the rows, so the rows are taken in the order of
\* their vehicles, the first on vehicle 1.
VehiculosIniciales(n) ==
    { vs \in [1..n -> VehiculosActivos] :
         /\ n > 0 => vs[1] = 1
         /\ \A i \in 1..n, j \in 1..n : i < j => vs[i] <= vs[j] }

Init ==
    /\ hoy = 1
    /\ \E n \in 0..MaxMov : \E vs \in VehiculosIniciales(n) :
          /\ movimientos =
                [i \in 1..n |-> FilaSolicitada(vs[i], 1, 1, Folio(1, i), 1)]
          /\ movimientos_eventos =
                [i \in 1..n |-> << [evento |-> "SOLICITADO", usuario_id |-> 1, fecha |-> 1] >>]
    /\ resultado = ""
    /\ llamadas = [p \in Llamadas |-> LlamadaInicial]
    /\ folio_generado = SinFolio
    /\ prestamos = <<>>

Entregar == \E m \in Ids, u \in Administradores : marcar_entregado(m, u)
Rechazar == \E m \in Ids, u \in Administradores : marcar_rechazado(m, u)
Devolver == \E m \in Ids, u \in Administradores : marcar_devuelto(m, u)

Solicitar == \E req \in Solicitudes : crear_movimiento(req)

Next ==
    \/ Solicitar
    \/ Entregar
    \/ Rechazar
    \/ Devolver
    \/ PasaDia

Spec == Init /\ [][Next]_vars

\* The operations of the program together with the maintenance script.
Limpiar == limpiar_movimientos

NextLimpiar ==
    \/ Next
    \/ Limpiar

SpecLimpiar == Init /\ [][NextLimpiar]_vars

\* Concurrent calls of crear_movimiento on one store, their statements
\* interleaved.
Validar == \E p \in Llamadas, req \in Solicitudes : c_validar(p, req)
Pasajeros == \E p \in Llamadas : c_pasajeros(p)

NextSolicitudes ==
    \/ Validar
    \/ Pasajeros

SpecSolicitudes == Init /\ [][NextSolicitudes]_vars

\* _generar_folio applied to the stores the schema admits: up to MaxFilas rows
\* inserted on day 1, each for a trip on some day from day 1 on, with distinct
\* folios.
InitFolio ==
    /\ hoy = 1
    /\ \E n \in 0..MaxFilas : \E fs \in [1..n -> 1..(MaxDia + 1)] :
          /\ movimientos =
                [i \in 1..n |-> FilaSolicitada(1, 1, fs[i], Folio(1, i), 1)]
          /\ movimientos_eventos =
                [i \in 1..n |-> << [evento |-> "SOLICITADO", usuario_id |-> 1, fecha |-> 1] >>]
    /\ resultado = ""
    /\ llamadas = [p \in Llamadas |-> LlamadaInicial]
    /\ folio_generado = SinFolio
    /\ prestamos = <<>>

NextFolio ==
    \/ GenerarFolio
    \/ PasaDia

SpecFolio == InitFolio /\ [][NextFolio]_vars

\* The INSERT part of crear_movimiento applied to the same stores, for a
\* request by user 1 for vehicle 1 (up to MaxFilas + 1 rows in all).
Insertar ==
    /\ Len(movimientos) <= MaxFilas
    /\ \E fecha_solicitud \in 0..(MaxDia + 1) :
          crear_movimiento_insertar(1, 1, fecha_solicitud)

NextInsertar ==
    \/ Insertar
    \/ PasaDia

SpecInsertar == InitFolio /\ [][NextInsertar]_vars

\* Requests posted on any day of the week, to a store where vehicle 1 has no
\* movement or one movement that is requested, delivered today, or delivered
\* and returned today.
FilaInicial(estado) ==
    [FilaSolicitada(1, 1, hoy, Folio(hoy, 1), hoy) EXCEPT
        !.fecha_entrega = IF estado = "solicitado" THEN NULL ELSE hoy,
        !.fecha_devolucion = IF estado = "devuelto" THEN hoy ELSE NULL,
        !.devuelto = IF estado = "devuelto" THEN 1 ELSE 0]

EventosIniciales(estado) ==
    LET ev(e, u) == [evento |-> e, usuario_id |-> u, fecha |-> hoy] IN
    IF estado = "solicitado" THEN << ev("SOLICITADO", 1) >>
    ELSE IF estado = "entregado" THEN << ev("SOLICITADO", 1), ev("ENTREGADO", 2) >>
    ELSE << ev("SOLICITADO", 1), ev("ENTREGADO", 2), ev("DEVUELTO", 2) >>

InitSolicitar ==
    /\ hoy \in 1..MaxHoy
    /\ \/ movimientos = <<>> /\ movimientos_eventos = <<>>
       \/ \E estado \in {"solicitado", "entregado", "devuelto"} :
             /\ movimientos = << FilaInicial(estado) >>
             /\ movimientos_eventos = << EventosIniciales(estado) >>
    /\ resultado = ""
    /\ llamadas = [p \in Llamadas |-> LlamadaInicial]
    /\ folio_generado = SinFolio
    /\ prestamos = <<>>

\* solicitar posted with a form, and crear_movimiento called with the
\* arguments of a form.
Postear == \E form \in Formularios : solicitar(form)
Llamar == \E form \in Formularios : crear_movimiento(SolicitudDe(form))

NextSolicitar ==
    \/ Postear
    \/ Llamar

SpecSolicitar == InitSolicitar /\ [][NextSolicitar]_vars

\* Loan requests posted on any day of the week, to a store where vehicle 2 has
\* no movement or one movement that is requested, delivered or returned.
InitPrestamo ==
    /\ hoy \in 1..MaxHoy
    /\ \/ movimientos = <<>> /\ movimientos_eventos = <<>>
       \/ \E estado \in {"solicitado", "entregado", "devuelto"} :
             /\ movimientos = << [FilaInicial(estado) EXCEPT !.vehiculo_id = 2] >>
             /\ movimientos_eventos = << EventosIniciales(estado) >>
    /\ resultado = ""
    /\ llamadas = [p \in Llamadas |-> LlamadaInicial]
    /\ folio_generado = SinFolio
    /\ prestamos = <<>>

\* solicitar posted with a loan form, and with a movement form.
PostearPrestamo == \E form \in FormulariosPrestamo : solicitar_es_prestamo(form)
PostearMovimiento == \E form \in FormulariosResponsable : solicitar(form)

NextPrestamo ==
    \/ PostearPrestamo
    \/ PostearMovimiento

SpecPrestamo == InitPrestamo /\ [][NextPrestamo]_vars

\* Loan requests together with the administrator's deliver, reject and return
\* of the movement of vehicle 2.
NextFlota ==
    \/ PostearPrestamo
    \/ Entregar
    \/ Rechazar
    \/ Devolver

SpecFlota == InitPrestamo /\ [][NextFlota]_vars

\* The same with solicitar_prestamo also called directly.
LlamarPrestamo == \E sol \in SolicitudesPrestamo : solicitar_prestamo(sol)

NextMotor ==
    \/ PostearPrestamo
    \/ LlamarPrestamo
    \/ Entregar
    \/ Rechazar
    \/ Devolver

SpecMotor == InitPrestamo /\ [][NextMotor]_vars

\* ============================================================== properties

\* The kinds of the ledger events of movement m, in append order.
Eventos(m) ==
    [i \in 1..Len(movimientos_eventos[m]) |-> movimientos_eventos[m][i].evento]

Cuenta(m, evento) ==
    Cardinality({i \in 1..Len(movimientos_eventos[m]) :
                    movimientos_eventos[m][i].evento = evento})

Rechazado(m) == Cuenta(m, "RECHAZADO") > 0
Entregado(m) == movimientos[m].fecha_entrega # NULL
Devuelto(m) == movimientos[m].devuelto = 1
\* Open: delivered, not returned, not rejected.
Abierto(m) == Entregado(m) /\ ~Devuelto(m) /\ ~Rechazado(m)

Store == <<movimientos, movimientos_eventos, prestamos>>

\* The ledger of m with one more event of the given kind by usuario_id, dated today.
ConEvento(m, usuario_id, evento) ==
    [movimientos_eventos EXCEPT ![m] =
        Append(@, [evento |-> evento, usuario_id |-> usuario_id, fecha |-> hoy])]

\* C1: the ledger events of every movement, in append order, are a prefix of
\* [SOLICITADO, ENTREGADO or RECHAZADO, DEVUELTO]; DEVUELTO only after an
\* ENTREGADO, RECHAZADO never together with ENTREGADO or DEVUELTO.
C1_LedgerPrefix ==
    \A m \in DOMAIN movimientos :
        Eventos(m) \in { <<>>,
                         <<"SOLICITADO">>,
                         <<"SOLICITADO", "ENTREGADO">>,
                         <<"SOLICITADO", "RECHAZADO">>,
                         <<"SOLICITADO", "ENTREGADO", "DEVUELTO">> }

C1_Witness ==
    /\ \E m \in DOMAIN movimientos :
          Eventos(m) = <<"SOLICITADO", "ENTREGADO", "DEVUELTO">>
    /\ \E m \in DOMAIN movimientos : Eventos(m) = <<"SOLICITADO", "RECHAZADO">>

\* C2: at most one movement per vehicle is open (delivered, not returned, not
\* rejected) in every reachable state.
C2_VehicleExclusivity ==
    \A v \in VehiculosActivos :
        Cardinality({m \in DOMAIN movimientos :
                        movimientos[m].vehiculo_id = v /\ Abierto(m)}) <= 1

\* C3: deliver succeeds exactly when the movement exists, has no RECHAZADO
\* event and no delivery date; a success sets the delivery date to today and
\* appends one ENTREGADO event by the actor; a failure changes no row of the
\* movements and no row of the ledger.
C3_Deliver ==
    [][\A m \in Ids, u \in Administradores :
          marcar_entregado(m, u) =>
             IF m \in DOMAIN movimientos /\ ~Rechazado(m) /\ ~Entregado(m)
             THEN /\ resultado' = "Entrega registrada."
                  /\ movimientos' = [movimientos EXCEPT ![m].fecha_entrega = hoy]
                  /\ movimientos_eventos' = ConEvento(m, u, "ENTREGADO")
             ELSE /\ resultado' \in { "Movimiento no encontrado.",
                                      "El movimiento fue rechazado.",
                                      "El movimiento ya fue entregado." }
                  /\ UNCHANGED Store]_vars

C3_Witness ==
    /\ resultado = "Entrega registrada."
    /\ \E m \in DOMAIN movimientos :
          /\ movimientos[m].fecha_entrega = hoy
          /\ Eventos(m) = <<"SOLICITADO", "ENTREGADO">>
          /\ movimientos_eventos[m][2].usuario_id \in Administradores

\* C4: return succeeds exactly when the movement exists, is delivered and is
\* not yet returned; a success sets the return date and the returned flag and
\* appends one DEVUELTO event; a failure changes no row.
C4_Return ==
    [][\A m \in Ids, u \in Administradores :
          marcar_devuelto(m, u) =>
             IF m \in DOMAIN movimientos /\ Entregado(m) /\ ~Devuelto(m)
             THEN /\ resultado' = "Devolucion registrada."
                  /\ movimientos' = [movimientos EXCEPT ![m].fecha_devolucion = hoy,
                                                         ![m].devuelto = 1]
                  /\ movimientos_eventos' = ConEvento(m, u, "DEVUELTO")
             ELSE /\ resultado' \in { "Movimiento no encontrado.",
                                      "El movimiento ya esta devuelto.",
                                      "No se puede devolver sin entrega registrada." }
                  /\ UNCHANGED Store]_vars

C4_Witness ==
    /\ resultado = "Devolucion registrada."
    /\ \E m \in DOMAIN movimientos :
          /\ Devuelto(m)
          /\ movimientos[m].fecha_devolucion = hoy
          /\ Cuenta(m, "DEVUELTO") = 1

\* C5: reject fails on an unknown, delivered, returned or rejected movement and
\* then changes nothing; on a rejected movement it fails as already rejected,
\* so a second reject adds no second RECHAZADO event.
C5_RejectFails ==
    [][\A m \in Ids, u \in Administradores :
          marcar_rechazado(m, u) =>
             /\ (m \notin DOMAIN movimientos) =>
                   resultado' = "Movimiento no encontrado." /\ UNCHANGED Store
             /\ (m \in DOMAIN movimientos /\ (Entregado(m) \/ Devuelto(m))) =>
                   /\ resultado' = "No se puede rechazar un movimiento entregado."
                   /\ UNCHANGED Store
             /\ (m \in DOMAIN movimientos /\ Rechazado(m)) =>
                   /\ resultado' = "El movimiento ya fue rechazado."
                   /\ UNCHANGED Store
                   /\ Cuenta(m, "RECHAZADO") = 1]_vars

C5_Witness ==
    /\ resultado = "El movimiento ya fue rechazado."
    /\ \E m \in DOMAIN movimientos : Cuenta(m, "RECHAZADO") = 1

\* C6: a successful reject appends one RECHAZADO event for the movement and
\* changes no column of any movement row and no other ledger row; the movement
\* is rejected (the EXISTS of listar_movimientos) only through that event.
C6_RejectFrame ==
    [][\A m \in Ids, u \in Administradores :
          (marcar_rechazado(m, u) /\ resultado' = "Movimiento rechazado.") =>
             /\ movimientos' = movimientos
             /\ movimientos_eventos' = ConEvento(m, u, "RECHAZADO")
             /\ ~Rechazado(m)
             /\ Cuenta(m, "RECHAZADO")' = 1]_vars

C6_Witness ==
    /\ resultado = "Movimiento rechazado."
    /\ \E m \in DOMAIN movimientos :
          /\ Eventos(m) = <<"SOLICITADO", "RECHAZADO">>
          /\ movimientos[m].fecha_entrega = NULL
          /\ movimientos[m].devuelto = 0

\* C7: once a movement is returned or rejected, every deliver, reject or
\* return on it fails, and its row and its ledger never change again.
C7_Terminal ==
    /\ [](\A m \in DOMAIN movimientos :
             (Devuelto(m) \/ Rechazado(m)) =>
                /\ marcar_entregado_msg(m) \in { "El movimiento fue rechazado.",
                                                 "El movimiento ya fue entregado." }
                /\ marcar_rechazado_msg(m) \in
                      { "No se puede rechazar un movimiento entregado.",
                        "El movimiento ya fue rechazado." }
                /\ marcar_devuelto_msg(m) \in
                      { "El movimiento ya esta devuelto.",
                        "No se puede devolver sin entrega registrada." })
    /\ [][\A m \in DOMAIN movimientos :
             (Devuelto(m) \/ Rechazado(m)) =>
                /\ movimientos'[m] = movimientos[m]
                /\ movimientos_eventos'[m] = movimientos_eventos[m]]_vars

C7_Witness ==
    /\ resultado = "El movimiento fue rechazado."
    /\ \E m \in DOMAIN movimientos : Rechazado(m) /\ movimientos_eventos[m][2].fecha < hoy
    /\ \E m \in DOMAIN movimientos : Devuelto(m)

\* A delivered and not returned movement holds vehicle v.
EnUso(v) ==
    \E m \in DOMAIN movimientos :
        movimientos[m].vehiculo_id = v /\ Entregado(m) /\ ~Devuelto(m)

\* The request passes the checks crear_movimiento makes before it looks for a
\* movement in use: required data, reason, active requester, active vehicle.
LlegaAEnUso(req) ==
    /\ req.vehiculo_id # NULL
    /\ req.responsable_usuario_id # NULL
    /\ req.ruta_destinos # <<>>
    /\ req.no_pasajeros > 0 => req.pasajeros_ids # <<>>
    /\ req.motivo_salida \in { "Notificacion de Oficio", "Revision de Auditoria",
                               "Entrega de Recepcion", "Compulsas",
                               "Inspeccion Fisica" }
    /\ req.usuario_id \in UsuariosActivos
    /\ req.vehiculo_id \in VehiculosActivos

ErroresSolicitud ==
    { "Falta el dato de vehiculo.", "Falta el dato de responsable.",
      "Falta el dato de ruta.", "Falta el dato de motivo.",
      "Falta el dato de nombres_pasajeros.", "Motivo de salida no valido.",
      "Usuario no encontrado para resguardo.", "Vehiculo no encontrado.",
      "La unidad ya esta en uso.", "Responsable no encontrado." }

MensajesSolicitud == ErroresSolicitud \cup {"UnboundLocalError"}

\* C8 as stated: while a delivered, not returned movement holds V, every
\* request for V fails with the 'unit already in use' error.
C8_Original ==
    \A req \in Solicitudes :
        EnUso(req.vehiculo_id) =>
           crear_movimiento_msg(req) = "La unidad ya esta en uso."

\* C8 amended: while a delivered, not returned movement holds V, every request
\* for V returns an error and persists nothing, whatever its date, and the
\* error is 'unit already in use' when the request has its required data, a
\* valid reason and an active requester and V is active; when no such movement
\* holds V, no request for V fails with that error.
C8_UnitInUse ==
    /\ [](\A req \in Solicitudes :
             /\ EnUso(req.vehiculo_id) =>
                   /\ crear_movimiento_msg(req) \in ErroresSolicitud
                   /\ LlegaAEnUso(req) =>
                         crear_movimiento_msg(req) = "La unidad ya esta en uso."
             /\ ~EnUso(req.vehiculo_id) =>
                   crear_movimiento_msg(req) # "La unidad ya esta en uso.")
    /\ [][resultado' \in MensajesSolicitud => UNCHANGED Store]_vars

C8_Witness ==
    /\ resultado = "La unidad ya esta en uso."
    /\ \E m \in DOMAIN movimientos :
          Entregado(m) /\ ~Devuelto(m) /\ movimientos[m].fecha_entrega < hoy

\* ---------------------------------------------------------------- folios

Terminada(p) == llamadas[p].pc \in {"retorno", "excepcion"}

\* A request with every field valid, for an active vehicle that is not in use.
SolicitudValida(req) ==
    /\ req.vehiculo_id \in VehiculosActivos
    /\ req = SolicitudBase(req.vehiculo_id, req.fecha_solicitud)
    /\ ~EnUso(req.vehiculo_id)

\* The number a sequence of decimal digits writes.
RECURSIVE Valor(_)
Valor(d) ==
    IF d = <<>> THEN 0 ELSE 10 * Valor(SubSeq(d, 1, Len(d) - 1)) + d[Len(d)]

\* C9: every finished concurrent call that made a valid request on the same
\* date has obtained a folio ACTA-<today>-NNNN of four digits, and the folios of
\* any two such calls differ.
C9_ConcurrentFolios ==
    \A p \in Llamadas :
        (Terminada(p) /\ SolicitudValida(llamadas[p].req)) =>
            /\ llamadas[p].folio.fecha = hoy
            /\ Len(llamadas[p].folio.secuencia) = 4
            /\ \A q \in Llamadas \ {p} :
                   (Terminada(q) /\ SolicitudValida(llamadas[q].req)) =>
                       llamadas[q].folio # llamadas[p].folio

\* Movements inserted on the current day, whatever day their trip is for.
CreadosHoy == {m \in DOMAIN movimientos : movimientos[m].created_at = hoy}

\* C10: the sequence number of a folio computed today is one plus the number
\* of movements already requested (inserted) today, whatever their trip dates.
C10_FolioSequence ==
    folio_generado.fecha = hoy =>
        Valor(folio_generado.secuencia) = 1 + Cardinality(CreadosHoy)

\* C11: run one after another, the requests of a day never compute a folio
\* that a movement already has, whatever the trip dates: the folio computed
\* today differs from the folio of every stored movement.
C11_SequentialFolios ==
    folio_generado.fecha = hoy =>
        \A m \in DOMAIN movimientos : movimientos[m].folio # folio_generado

\* ------------------------------------------------------------- acceptance

\* C12: a request that satisfies every validation rule succeeds and adds one
\* movement in REQUESTED state, with one passenger association per accepted
\* passenger, its destinations in the given order and one SOLICITADO event by
\* the requester as its first event; every other row stays as it was.
C12_RequestSucceeds ==
    [][\A req \in Solicitudes :
          (SolicitudValida(req) /\ crear_movimiento(req)) =>
             /\ DOMAIN movimientos' = 1..(Len(movimientos) + 1)
             /\ resultado' \notin MensajesSolicitud
             /\ \A m \in DOMAIN movimientos :
                   /\ movimientos'[m] = movimientos[m]
                   /\ movimientos_eventos'[m] = movimientos_eventos[m]
             /\ LET fila == movimientos'[Len(movimientos) + 1] IN
                   /\ fila.vehiculo_id = req.vehiculo_id
                   /\ fila.usuario_id = req.usuario_id
                   /\ fila.fecha_entrega = NULL
                   /\ fila.devuelto = 0
                   /\ fila.pasajeros = req.pasajeros_ids
                   /\ fila.no_pasajeros = Len(req.pasajeros_ids)
                   /\ fila.ruta_destino = req.ruta_destinos
             /\ movimientos_eventos'[Len(movimientos) + 1] =
                   << [evento |-> "SOLICITADO", usuario_id |-> req.usuario_id,
                       fecha |-> hoy] >>]_vars

\* The passenger list of a request without its responsible party (an auditor
\* responsible who is also listed as passenger is not a passenger).
SinResponsable(req) ==
    LET Otro(x) == x # req.responsable_usuario_id IN
    IF req.responsable_tipo = "auditor"
    THEN SelectSeq(req.pasajeros_ids, Otro)
    ELSE req.pasajeros_ids

\* The request satisfies the validation rules: active requester, active
\* vehicle not in use, responsible party that resolves, at most 4 passengers,
\* as many passenger ids as the count, the passengers (responsible party
\* removed) distinct active auditors, destinations all active entities, and a
\* reason the engine lists.
CumpleReglas(req) ==
    /\ req.usuario_id \in UsuariosActivos
    /\ req.vehiculo_id \in VehiculosActivos
    /\ ~EnUso(req.vehiculo_id)
    /\ \/ req.responsable_tipo = "auditor" /\ req.responsable_usuario_id \in AuditoresActivos
       \/ req.responsable_tipo = "usuario" /\ req.responsable_usuario_id \in UsuariosActivos
    /\ req.no_pasajeros \in 0..4
    /\ Len(req.pasajeros_ids) = req.no_pasajeros
    /\ \A i \in 1..Len(SinResponsable(req)) :
          /\ SinResponsable(req)[i] \in AuditoresActivos
          /\ \A j \in 1..Len(SinResponsable(req)) :
                SinResponsable(req)[i] = SinResponsable(req)[j] => i = j
    /\ req.ruta_destinos # <<>>
    /\ \A i \in 1..Len(req.ruta_destinos) : req.ruta_destinos[i] \in EntesActivos
    /\ req.motivo_salida \in { "Notificacion de Oficio", "Revision de Auditoria",
                               "Entrega de Recepcion", "Compulsas",
                               "Inspeccion Fisica" }

\* C13: a request that satisfies the rules is stored with a passenger count
\* equal to the number of its stored passenger associations, both taken after
\* a responsible party listed as passenger is removed; a request whose count
\* and passenger list length disagree persists no row.
C13_PassengerCount ==
    [][\A form \in Formularios :
          crear_movimiento(SolicitudDe(form)) =>
             LET req == SolicitudDe(form) IN
             /\ req.no_pasajeros # Len(req.pasajeros_ids) => UNCHANGED Store
             /\ CumpleReglas(req) =>
                   /\ DOMAIN movimientos' = 1..(Len(movimientos) + 1)
                   /\ movimientos'[Len(movimientos) + 1].pasajeros = SinResponsable(req)
                   /\ movimientos'[Len(movimientos) + 1].no_pasajeros =
                         Len(SinResponsable(req))]_vars

\* Some destination code of the request is not an active entity.
DestinoDesconocido(req) ==
    \E i \in 1..Len(req.ruta_destinos) : req.ruta_destinos[i] \notin EntesActivos

\* C14: a request with a destination code that is not an active entity, its
\* other fields satisfying the rules, is refused with the destinations-not-found
\* error and persists nothing, even when its other codes are valid.
C14_UnknownDestination ==
    [][\A form \in Formularios :
          LET req == SolicitudDe(form) IN
          ( /\ crear_movimiento(req)
            /\ DestinoDesconocido(req)
            /\ CumpleReglas([req EXCEPT !.ruta_destinos = <<"SFP">>]) ) =>
             /\ resultado' = "Destinos no encontrados en catalogo de entes."
             /\ UNCHANGED Store]_vars

\* ------------------------------------------------------------ the date rule

ErroresFecha ==
    { "La fecha de solicitud no es valida.",
      "La fecha de salida debe estar dentro de los dias habiles permitidos." }

\* Day d is a Monday-to-Friday day.
Habil(d) == dia_semana(d) < 5

\* The five business days that start today (next Monday on a weekend): d is a
\* business day, not before today, and at most five business days lie between
\* today and d.
EnVentana(d) ==
    /\ d >= hoy
    /\ Habil(d)
    /\ Cardinality({e \in hoy..d : Habil(e)}) <= 5

\* Monday to Friday of the week today is in.
EnSemanaActual(d) ==
    /\ d >= hoy - dia_semana(hoy)
    /\ d <= hoy - dia_semana(hoy) + 4

\* The form gets to the date check of solicitar: vehicle id numeric, responsible
\* reference well-formed, passenger count a number up to 4, as many numeric
\* passenger ids as the count, some destination, a reason of the handler's list.
LlegaAFecha(form) ==
    /\ form.vehiculo_raw.num
    /\ form.responsable_raw.id.num
    /\ form.no_pasajeros_txt.num
    /\ form.no_pasajeros_txt.n <= 4
    /\ Len(form.pasajeros_ids) = form.no_pasajeros_txt.n
    /\ \A i \in 1..Len(form.pasajeros_ids) : form.pasajeros_ids[i].num
    /\ form.ruta_destinos # <<>>
    /\ form.motivo_salida \in { "Notificacion de Oficio", "Revision de Auditoria",
                                "Entrega de Recepcion", "Acta de Cierre",
                                "Compulsas", "Inspeccion Fisica" }

\* C17 as stated: a request that is not a loan and whose date does not parse,
\* or is not a Monday-to-Friday day of the current week, is rejected with a
\* date error.
C17_Original ==
    \A form \in Formularios :
        ( /\ LlegaAFecha(form)
          /\ ~(form.fecha_solicitud.num /\ EnSemanaActual(form.fecha_solicitud.n)) ) =>
           solicitar_msg(form) \in ErroresFecha

\* C17 amended: a request that is not a loan gets past the date check exactly
\* when its date parses, is a Monday-to-Friday day and lies within the five
\* business days that start today (next Monday on a weekend); any other date is
\* rejected with a date error, and nothing is persisted.
C17_DateWindow ==
    /\ [](\A form \in Formularios :
             LlegaAFecha(form) =>
                ( solicitar_msg(form) \notin ErroresFecha
                  <=> ( /\ form.fecha_solicitud.num
                        /\ EnVentana(form.fecha_solicitud.n) ) ))
    /\ [][resultado' \in ErroresFecha => UNCHANGED Store]_vars

\* Posted on a Wednesday, a form for the Monday after was let through by the
\* date check and one for the Wednesday after was rejected.
C17_Witness ==
    /\ dia_semana(hoy) = 2
    /\ solicitar_msg(FormularioBase(Num(hoy + 5))) \notin ErroresFecha
    /\ resultado = "La fecha de salida debe estar dentro de los dias habiles permitidos."

\* ------------------------------------------------------ the order of the rules

\* The responsible party the form names is an active auditor ("auditor:<id>")
\* or an active user (a bare id).
ResponsableResuelve(form) ==
    /\ form.responsable_raw.id.num
    /\ IF form.responsable_raw.prefijo
       THEN form.responsable_raw.id.n \in AuditoresActivos
       ELSE form.responsable_raw.id.n \in UsuariosActivos

\* The vehicle is active and among the requester's vehicles (every active
\* vehicle when the requester has none assigned).
VehiculoDelSolicitante(form) ==
    /\ form.vehiculo_raw.n \in VehiculosActivos
    /\ \/ \A uv \in usuarios_vehiculos : uv[1] # form.usuario_id
       \/ <<form.usuario_id, form.vehiculo_raw.n>> \in usuarios_vehiculos

\* Rules 1 to 8 as the claim numbers them: whether the form violates the rule,
\* and the errors that report the rule.
ViolaRegla(form) ==
    << ~form.vehiculo_raw.num \/ ~VehiculoDelSolicitante(form),
       ~ResponsableResuelve(form),
       ~form.no_pasajeros_txt.num \/ form.no_pasajeros_txt.n > 4,
       \/ Len(form.pasajeros_ids) # form.no_pasajeros_txt.n
       \/ \E i \in 1..Len(form.pasajeros_ids) : ~form.pasajeros_ids[i].num,
       form.ruta_destinos = <<>> \/ DestinoDesconocido(form),
       form.motivo_salida \notin { "Notificacion de Oficio", "Revision de Auditoria",
                                   "Entrega de Recepcion", "Acta de Cierre",
                                   "Compulsas", "Inspeccion Fisica" },
       ~(form.fecha_solicitud.num /\ EnVentana(form.fecha_solicitud.n)),
       EnUso(form.vehiculo_raw.n) >>

ErroresRegla ==
    << { "Falta seleccionar la unidad.", "La unidad seleccionada no es valida.",
         "Falta el dato de vehiculo.", "Vehiculo no encontrado." },
       { "Falta seleccionar al responsable del vehiculo.",
         "Falta el dato de responsable.", "Responsable no encontrado." },
       { "El numero de pasajeros debe ser numerico.",
         "El numero de pasajeros no puede exceder 4 (maximo 5 ocupantes incluyendo al conductor)." },
       { "El numero de pasajeros debe coincidir con los nombres seleccionados.",
         "La lista de pasajeros no es valida.", "Falta el dato de nombres_pasajeros.",
         "Pasajeros duplicados en la seleccion.", "Pasajeros no encontrados.",
         "El numero de pasajeros no coincide." },
       { "Falta seleccionar la ruta destino.", "Falta el dato de ruta.",
         "Destinos no encontrados en catalogo de entes." },
       { "El motivo de salida no es valido.", "Motivo de salida no valido.",
         "Falta el dato de motivo." },
       ErroresFecha,
       { "La unidad ya esta en uso." } >>

\* C15 as stated: the error returned is one of the lowest-numbered rule the
\* form violates, in the order vehicle, responsible party, passenger count,
\* passenger list, destinations, reason, date, vehicle in use.
C15_Original ==
    \A form \in Formularios : \A k \in 1..8 :
        ( /\ ViolaRegla(form)[k]
          /\ \A j \in 1..(k - 1) : ~ViolaRegla(form)[j] ) =>
           solicitar_msg(form) \in ErroresRegla[k]

\* The checks in the order the code makes them, each with its error.
Verificaciones(form) ==
    << << ~form.vehiculo_raw.num, "Falta seleccionar la unidad." >>,
       << ~form.responsable_raw.id.num,
          "Falta seleccionar al responsable del vehiculo." >>,
       << ~form.no_pasajeros_txt.num, "El numero de pasajeros debe ser numerico." >>,
       << form.no_pasajeros_txt.n > 4,
          "El numero de pasajeros no puede exceder 4 (maximo 5 ocupantes incluyendo al conductor)." >>,
       << Len(form.pasajeros_ids) # form.no_pasajeros_txt.n,
          "El numero de pasajeros debe coincidir con los nombres seleccionados." >>,
       << \E i \in 1..Len(form.pasajeros_ids) : ~form.pasajeros_ids[i].num,
          "La lista de pasajeros no es valida." >>,
       << form.ruta_destinos = <<>>, "Falta seleccionar la ruta destino." >>,
       << ViolaRegla(form)[6], "El motivo de salida no es valido." >>,
       << ~form.fecha_solicitud.num, "La fecha de solicitud no es valida." >>,
       << ~EnVentana(form.fecha_solicitud.n),
          "La fecha de salida debe estar dentro de los dias habiles permitidos." >>,
       << ~VehiculoDelSolicitante(form), "La unidad seleccionada no es valida." >>,
       << form.motivo_salida = "Acta de Cierre", "Motivo de salida no valido." >>,
       << form.usuario_id \notin UsuariosActivos,
          "Usuario no encontrado para resguardo." >>,
       << EnUso(form.vehiculo_raw.n), "La unidad ya esta en uso." >>,
       << ~ResponsableResuelve(form), "Responsable no encontrado." >> >>

\* C15 amended: the error returned is that of the first check the form fails,
\* in the order vehicle id present and numeric, responsible reference
\* well-formed, passenger count, passenger list, destinations present, reason,
\* date, vehicle among the requester's active vehicles, reason of the engine's
\* list, requester active, vehicle in use, responsible party resolves.
C15_ValidationOrder ==
    \A form \in Formularios :
        LET v == Verificaciones(form)
            falladas == { k \in 1..Len(v) : v[k][1] }
        IN  falladas # {} =>
               \E k \in falladas :
                   /\ \A j \in falladas : k <= j
                   /\ solicitar_msg(form) = v[k][2]

\* A form for a vehicle in use that names a responsible party who does not
\* resolve was answered 'unit already in use'.
C15_Witness ==
    /\ resultado = "La unidad ya esta en uso."
    /\ \E form \in Formularios :
          /\ EnUso(form.vehiculo_raw.n)
          /\ ~ResponsableResuelve(form)
          /\ solicitar_msg(form) = resultado

\* ------------------------------------------------------ the reasons

MotivosPermitidos ==
    { "Notificacion de Oficio", "Revision de Auditoria", "Entrega de Recepcion",
      "Acta de Cierre", "Compulsas", "Inspeccion Fisica" }

\* The form passes every check other than the reason's.
ValidaSalvoMotivo(form) ==
    /\ \A k \in 1..Len(Verificaciones(form)) :
          k \notin {8, 12} => ~Verificaciones(form)[k][1]
    /\ ~DestinoDesconocido(form)

\* C16: a request that is otherwise valid is refused for its reason exactly
\* when the reason is not one of the six permitted reasons, 'Acta de Cierre'
\* among them.
C16_PermittedReasons ==
    \A form \in Formularios :
        ValidaSalvoMotivo(form) =>
           ( solicitar_msg(form) \notin ErroresRegla[6]
               <=> form.motivo_salida \in MotivosPermitidos )

\* ------------------------------------------------------ the responsible party

\* The reference is 'auditor:<digits>' of an active auditor.
EsAuditorActivo(raw) == raw.prefijo /\ raw.id.num /\ raw.id.n \in AuditoresActivos
\* The reference is the bare id of an active user.
EsUsuarioActivo(raw) == ~raw.prefijo /\ raw.id.num /\ raw.id.n \in UsuariosActivos

ErroresResponsable ==
    { "Falta seleccionar al responsable del vehiculo.", "Responsable no encontrado." }

\* The loan form passes every check once its reference is replaced by
\* 'auditor:1'.
ValidoSalvoResponsable(form) ==
    solicitar_es_prestamo_msg([form EXCEPT !.responsable_raw =
                                  [prefijo |-> TRUE, id |-> Num(1)]])
       = "Solicitud de prestamo registrada."

\* C18: every loan in the store has a responsible party of exactly one kind,
\* an active auditor with no user id stored or an active user with his id
\* stored; a loan is accepted only with a reference 'auditor:<digits>' of an
\* active auditor or the bare id of an active user, and is stored with that
\* party; a movement or loan request whose reference is of any other form or
\* does not resolve ends in an error (the error of the responsible party when
\* the loan passes the other checks) and nothing is persisted.
C18_ResponsibleParty ==
    /\ [](/\ \A l \in DOMAIN prestamos :
              \/ /\ prestamos[l].responsable_nombre[1] = "auditores"
                 /\ prestamos[l].responsable_nombre[2] \in AuditoresActivos
                 /\ prestamos[l].responsable_id = NULL
              \/ /\ prestamos[l].responsable_nombre[1] = "usuarios"
                 /\ prestamos[l].responsable_nombre[2] \in UsuariosActivos
                 /\ prestamos[l].responsable_id = prestamos[l].responsable_nombre[2]
          /\ \A form \in FormulariosPrestamo :
              IF EsAuditorActivo(form.responsable_raw)
                    \/ EsUsuarioActivo(form.responsable_raw)
              THEN TRUE
              ELSE /\ solicitar_es_prestamo_msg(form) # "Solicitud de prestamo registrada."
                   /\ ValidoSalvoResponsable(form) =>
                         solicitar_es_prestamo_msg(form) \in ErroresResponsable
          /\ \A form \in Formularios \cup FormulariosResponsable :
              ~ResponsableResuelve(form) =>
                 solicitar_msg(form) \in UNION { ErroresRegla[k] : k \in 1..8 }
                                           \cup ErroresSolicitud)
    /\ [][ /\ resultado' # "Solicitud de prestamo registrada." => UNCHANGED Store
          /\ prestamos' # prestamos =>
                \E form \in FormulariosPrestamo :
                    /\ solicitar_es_prestamo(form)
                    /\ EsAuditorActivo(form.responsable_raw)
                          \/ EsUsuarioActivo(form.responsable_raw)
                    /\ Len(prestamos') = Len(prestamos) + 1
                    /\ prestamos'[Len(prestamos')].responsable_nombre[2]
                          = form.responsable_raw.id.n
                    /\ prestamos'[Len(prestamos')].responsable_id
                          = IF form.responsable_raw.prefijo
                            THEN NULL ELSE form.responsable_raw.id.n ]_vars

\* A loan asked for with 'auditor:1' was accepted and is stored with the
\* auditor as its responsible party and no user id.
C18_Witness ==
    /\ resultado = "Solicitud de prestamo registrada."
    /\ \E l \in DOMAIN prestamos :
          /\ prestamos[l].responsable_nombre = <<"auditores", 1>>
          /\ prestamos[l].responsable_id = NULL

\* ------------------------------------------------------ the round trip

\* No movement was requested today.
SinSolicitudesHoy ==
    \A m \in DOMAIN movimientos : movimientos[m].created_at # hoy

\* C19: with no movement requested today, a request for an active vehicle
\* with an auditor responsible, no passengers, one valid destination and the
\* reason 'Compulsas' succeeds with the folio sequence 0001; a deliver of a
\* requested movement sets its delivery date to today and a deliver of a
\* delivered one fails as already delivered; a return of a delivered movement
\* sets returned and a return of a returned one fails as already returned.
C19_RoundTrip ==
    [][ /\ \A req \in Solicitudes :
              (SolicitudValida(req) /\ SinSolicitudesHoy /\ crear_movimiento(req)) =>
                 /\ Len(movimientos') = Len(movimientos) + 1
                 /\ movimientos'[Len(movimientos')].folio = Folio(hoy, 1)
        /\ \A m \in DOMAIN movimientos, u \in Administradores :
              /\ (marcar_entregado(m, u) /\ ~Rechazado(m)) =>
                    IF Entregado(m)
                    THEN resultado' = "El movimiento ya fue entregado."
                    ELSE movimientos'[m].fecha_entrega = hoy
              /\ (marcar_devuelto(m, u) /\ Entregado(m)) =>
                    IF Devuelto(m)
                    THEN resultado' = "El movimiento ya esta devuelto."
                    ELSE movimientos'[m].devuelto = 1 ]_vars

\* ------------------------------------------------------ results

\* C20: every call of crear_movimiento, marcar_entregado, marcar_rechazado and
\* marcar_devuelto ends by returning a result: none ends in an exception.
C20_AlwaysReturns ==
    resultado # "UnboundLocalError"

\* ------------------------------------------------------ retry of the insert

\* ------------------------------------------------- loan validation

\* The roles a session can hold.
Roles == {"admin", "monitor", "user"}

\* The sessions that post to the loan routes: role and usuario_id.
Sesiones == { <<"admin", 2>>, <<"monitor", 6>>, <<"user", 1>> }

\* How many loan rows the requests of SpecValidar add.
MaxPrestamos == 2

\* marcar_prestamo_validado and marcar_prestamo_rechazado: transitions of a
\* loan from PENDIENTE to VALIDADO or RECHAZADO, both final.  The results are
\* named by their case.
marcar_prestamo_msg(prestamo_id, hecho) ==
    IF prestamo_id \notin DOMAIN prestamos THEN "Prestamo no encontrado."
    ELSE IF prestamos[prestamo_id].estado # "PENDIENTE" THEN "El prestamo no esta pendiente."
    ELSE hecho

marcar_prestamo_validado(prestamo_id, usuario_id) ==
    /\ resultado' = marcar_prestamo_msg(prestamo_id, "Prestamo validado.")
    /\ prestamos' = IF marcar_prestamo_msg(prestamo_id, "Prestamo validado.") = "Prestamo validado."
                    THEN [prestamos EXCEPT ![prestamo_id].estado = "VALIDADO"]
                    ELSE prestamos
    /\ UNCHANGED <<hoy, movimientos, movimientos_eventos, llamadas, folio_generado>>

marcar_prestamo_rechazado(prestamo_id, usuario_id) ==
    /\ resultado' = marcar_prestamo_msg(prestamo_id, "Prestamo rechazado.")
    /\ prestamos' = IF marcar_prestamo_msg(prestamo_id, "Prestamo rechazado.") = "Prestamo rechazado."
                    THEN [prestamos EXCEPT ![prestamo_id].estado = "RECHAZADO"]
                    ELSE prestamos
    /\ UNCHANGED <<hoy, movimientos, movimientos_eventos, llamadas, folio_generado>>

\* The role check of the two routes letting every session through.
rol_permitido_cualquiera(rol) == TRUE

\* if session.get("rol") not in {"admin", "monitor"}: redirect to the dashboard
rol_permitido(rol) == rol \in {"admin", "monitor"}

\* What the routes answer: the redirect for a role that is not let through,
\* else the result of the engine.
prestamos_validar_msg(rol, prestamo_id) ==
    IF ~rol_permitido(rol) THEN "redirect dashboard"
    ELSE marcar_prestamo_msg(prestamo_id, "Prestamo validado.")

prestamos_rechazar_msg(rol, prestamo_id) ==
    IF ~rol_permitido(rol) THEN "redirect dashboard"
    ELSE marcar_prestamo_msg(prestamo_id, "Prestamo rechazado.")

\* POST /prestamos/<prestamo_id>/validar
prestamos_validar(rol, usuario_id, prestamo_id) ==
    IF ~rol_permitido(rol)
    THEN /\ resultado' = "redirect dashboard"
         /\ UNCHANGED <<hoy, movimientos, movimientos_eventos, llamadas, folio_generado,
                        prestamos>>
    ELSE marcar_prestamo_validado(prestamo_id, usuario_id)

\* POST /prestamos/<prestamo_id>/rechazar
prestamos_rechazar(rol, usuario_id, prestamo_id) ==
    IF ~rol_permitido(rol)
    THEN /\ resultado' = "redirect dashboard"
         /\ UNCHANGED <<hoy, movimientos, movimientos_eventos, llamadas, folio_generado,
                        prestamos>>
    ELSE marcar_prestamo_rechazado(prestamo_id, usuario_id)

InitValidar ==
    /\ hoy \in 1..MaxHoy
    /\ movimientos = <<>>
    /\ movimientos_eventos = <<>>
    /\ resultado = ""
    /\ llamadas = [p \in Llamadas |-> LlamadaInicial]
    /\ folio_generado = SinFolio
    /\ prestamos = <<>>

\* Loan requests for tomorrow by user 1 to each owner of vehicle 2.
PedirPrestamo ==
    /\ Len(prestamos) < MaxPrestamos
    /\ \E propietario_id \in {4, 5} :
          solicitar_prestamo(SolicitudPrestamo(1, propietario_id, << Num(hoy + 1) >>))

ValidarPrestamo ==
    \E ses \in Sesiones, prestamo_id \in 1..(MaxPrestamos + 1) :
        prestamos_validar(ses[1], ses[2], prestamo_id)

RechazarPrestamo ==
    \E ses \in Sesiones, prestamo_id \in 1..(MaxPrestamos + 1) :
        prestamos_rechazar(ses[1], ses[2], prestamo_id)

NextValidar == PedirPrestamo \/ ValidarPrestamo \/ RechazarPrestamo

SpecValidar == InitValidar /\ [][NextValidar]_vars

\* ------------------------------------------------- the routes and the session

\* The role check of movimientos_devolver also letting the monitor through.
rol_es_admin_o_monitor(rol) == rol \in {"admin", "monitor"}

\* if session.get("rol") != "admin": redirect to the dashboard
rol_es_admin(rol) == rol = "admin"

\* if session.get("rol") != "user": redirect to the dashboard
rol_es_user(rol) == rol = "user"

\* The answer of a route to a session its role check turns away.
Redirigir ==
    /\ resultado' = "redirect dashboard"
    /\ UNCHANGED <<hoy, movimientos, movimientos_eventos, llamadas, folio_generado, prestamos>>

\* POST /movimientos/<mov_id>/entregar
movimientos_entregar(rol, usuario_id, mov_id) ==
    IF ~rol_permitido(rol) THEN Redirigir ELSE marcar_entregado(mov_id, usuario_id)

\* POST /movimientos/<mov_id>/rechazar
movimientos_rechazar(rol, usuario_id, mov_id) ==
    IF ~rol_permitido(rol) THEN Redirigir ELSE marcar_rechazado(mov_id, usuario_id)

\* POST /movimientos/<mov_id>/devolver
movimientos_devolver(rol, usuario_id, mov_id) ==
    IF ~rol_es_admin(rol) THEN Redirigir ELSE marcar_devuelto(mov_id, usuario_id)

\* POST /solicitar and POST /prestamos/solicitar: the form is the session's,
\* a loan form when it carries the owner of the unit.
solicitar_sesion(rol, usuario_id, form) ==
    IF ~rol_es_user(rol) THEN Redirigir
    ELSE IF "propietario_raw" \in DOMAIN form
         THEN solicitar_es_prestamo([form EXCEPT !.usuario_id = usuario_id])
         ELSE solicitar([form EXCEPT !.usuario_id = usuario_id])

\* The forms posted to the two request routes.
FormulariosSesion ==
    { FormularioBase(Num(hoy)), FormularioBase(Num(hoy + 1)), PrestamoBase,
      [PrestamoBase EXCEPT !.propietario_raw = Num(5)] }

\* The store holds the movement user 1 requested today for vehicle 1; the
\* routes are posted for it and for a movement that does not exist.
InitSesion ==
    /\ hoy = 1
    /\ movimientos = << FilaSolicitada(1, 1, 1, Folio(1, 1), 1) >>
    /\ movimientos_eventos = << << [evento |-> "SOLICITADO", usuario_id |-> 1, fecha |-> 1] >> >>
    /\ resultado = ""
    /\ llamadas = [p \in Llamadas |-> LlamadaInicial]
    /\ folio_generado = SinFolio
    /\ prestamos = <<>>

EntregarSesion == \E ses \in Sesiones, m \in {1, 2} : movimientos_entregar(ses[1], ses[2], m)
RechazarSesion == \E ses \in Sesiones, m \in {1, 2} : movimientos_rechazar(ses[1], ses[2], m)
DevolverSesion == \E ses \in Sesiones, m \in {1, 2} : movimientos_devolver(ses[1], ses[2], m)
SolicitarSesion == \E ses \in Sesiones, form \in FormulariosSesion : solicitar_sesion(ses[1], ses[2], form)

NextSesion ==
    \/ EntregarSesion
    \/ RechazarSesion
    \/ DevolverSesion
    \/ SolicitarSesion

SpecSesion == InitSesion /\ [][NextSesion]_vars

\* ---------------------------------------------------------- listar_movimientos

\* The rows listar_movimientos selects: every movement, or those of one user.
movimientos_listados(usuario_id) ==
    { m \in DOMAIN movimientos : usuario_id = NULL \/ movimientos[m].usuario_id = usuario_id }

\* The count of the listing taken over the delivered rows instead.
pendientes_por_vehiculo_entregados(usuario_id, vehiculo_id) ==
    Cardinality({ m \in movimientos_listados(usuario_id) :
                     /\ movimientos[m].vehiculo_id = vehiculo_id
                     /\ movimientos[m].fecha_entrega # NULL
                     /\ movimientos[m].devuelto = 0
                     /\ ~evento_rechazado(m) })

\* pendientes_por_vehiculo[vehiculo_id]: the listed rows of the vehicle with
\* no fecha_entrega, devuelto = 0 and no RECHAZADO event.
pendientes_por_vehiculo(usuario_id, vehiculo_id) ==
    Cardinality({ m \in movimientos_listados(usuario_id) :
                     /\ movimientos[m].vehiculo_id = vehiculo_id
                     /\ movimientos[m].fecha_entrega = NULL
                     /\ movimientos[m].devuelto = 0
                     /\ ~evento_rechazado(m) })

\* mov["conflicto"] of a listed row.
conflicto(usuario_id, m) ==
    /\ movimientos[m].vehiculo_id # NULL
    /\ pendientes_por_vehiculo(usuario_id, movimientos[m].vehiculo_id) > 1

\* --------------------------------------------------- movimientos_con_alerta

\* Config.ALERTA_DIAS_NO_DEVUELTO
ALERTA_DIAS_NO_DEVUELTO == 7

\* The last day of the runs in which days pass after a delivery.
MaxDiaAlerta == 9

\* The alert comparing with > instead of >=.
alerta_mayor(m, dias_alerta) ==
    /\ movimientos[m].fecha_entrega # NULL
    /\ movimientos[m].devuelto = 0
    /\ hoy - movimientos[m].fecha_entrega > dias_alerta

\* MovimientoRow.alerta of a listed row: date.today() - fecha_entrega >=
\* timedelta(days=dias_alerta) for a row with fecha_entrega and not devuelto.
alerta(m, dias_alerta) ==
    /\ movimientos[m].fecha_entrega # NULL
    /\ movimientos[m].devuelto = 0
    /\ hoy - movimientos[m].fecha_entrega >= dias_alerta

PasaDiaAlerta ==
    /\ hoy < MaxDiaAlerta
    /\ hoy' = hoy + 1
    /\ UNCHANGED <<movimientos, movimientos_eventos, resultado, llamadas, folio_generado, prestamos>>

EntregarUno == \E m \in {1, 2} : marcar_entregado(m, 2)
RechazarUno == \E m \in {1, 2} : marcar_rechazado(m, 2)
DevolverUno == \E m \in {1, 2} : marcar_devuelto(m, 2)

NextAlerta ==
    \/ EntregarUno
    \/ RechazarUno
    \/ DevolverUno
    \/ PasaDiaAlerta

SpecAlerta == InitSesion /\ [][NextAlerta]_vars

\* ---------------- marcar_entregado, marcar_rechazado, marcar_devuelto by statement

\* Each call opens its own connection (_connect, sqlite3.connect with the
\* default isolation level): a SELECT runs outside any transaction, and the
\* UPDATE and the INSERT of the event are one transaction that ends at
\* conn.commit().  Call p keeps the row it selected in req.

\* The first SELECT of call p: the row of the movement, or the return of
\* "Movimiento no encontrado.".
t_select_fila(p, operacion, m, usuario_id) ==
    /\ llamadas[p].pc = "inicio"
    /\ llamadas' = [llamadas EXCEPT ![p] =
          IF m \notin DOMAIN movimientos
          THEN [@ EXCEPT !.pc = "retorno", !.msg = "Movimiento no encontrado."]
          ELSE [@ EXCEPT !.pc = "fila",
                         !.req = [ operacion     |-> operacion,
                                   movimiento_id |-> m,
                                   usuario_id    |-> usuario_id,
                                   fecha_entrega |-> movimientos[m].fecha_entrega,
                                   devuelto      |-> movimientos[m].devuelto ]]]
    /\ UNCHANGED <<hoy, movimientos, movimientos_eventos, resultado, folio_generado, prestamos>>

\* What call p answers after its row: the checks on the row it holds and, for
\* a delivery and a rejection, the SELECT of a RECHAZADO event; "" when the
\* call goes on to write.
t_verificacion(p) ==
    LET req == llamadas[p].req IN
    IF req.operacion = "entregar"
    THEN IF evento_rechazado(req.movimiento_id) THEN "El movimiento fue rechazado."
         ELSE IF req.fecha_entrega # NULL THEN "El movimiento ya fue entregado."
         ELSE ""
    ELSE IF req.operacion = "rechazar"
    THEN IF req.fecha_entrega # NULL \/ req.devuelto # 0
              THEN "No se puede rechazar un movimiento entregado."
         ELSE IF evento_rechazado(req.movimiento_id) THEN "El movimiento ya fue rechazado."
         ELSE ""
    ELSE IF req.devuelto # 0 THEN "El movimiento ya esta devuelto."
         ELSE IF req.fecha_entrega = NULL THEN "No se puede devolver sin entrega registrada."
         ELSE ""

t_verificar(p) ==
    /\ llamadas[p].pc = "fila"
    /\ llamadas' = [llamadas EXCEPT ![p] =
          [@ EXCEPT !.msg = t_verificacion(p),
                    !.pc  = IF t_verificacion(p) = "" THEN "escribir" ELSE "retorno"]]
    /\ UNCHANGED <<hoy, movimientos, movimientos_eventos, resultado, folio_generado, prestamos>>

\* The UPDATE, the INSERT of the event and the commit of call p.
t_escribir(p) ==
    LET req == llamadas[p].req
        m == req.movimiento_id
    IN
    /\ llamadas[p].pc = "escribir"
    /\ movimientos' =
          IF req.operacion = "entregar" THEN [movimientos EXCEPT ![m].fecha_entrega = hoy]
          ELSE IF req.operacion = "devolver"
               THEN [movimientos EXCEPT ![m].fecha_devolucion = hoy, ![m].devuelto = 1]
          ELSE movimientos
    /\ movimientos_eventos' =
          registrar_evento(movimientos_eventos, m, req.usuario_id,
                           IF req.operacion = "entregar" THEN "ENTREGADO"
                           ELSE IF req.operacion = "devolver" THEN "DEVUELTO"
                           ELSE "RECHAZADO")
    /\ llamadas' = [llamadas EXCEPT ![p] =
          [@ EXCEPT !.pc = "retorno",
                    !.msg = IF req.operacion = "entregar" THEN "Entrega registrada."
                            ELSE IF req.operacion = "devolver" THEN "Devolucion registrada."
                            ELSE "Movimiento rechazado."]]
    /\ UNCHANGED <<hoy, resultado, folio_generado, prestamos>>

\* The store holds one movement of vehicle 1, requested or delivered.
InitCarrera ==
    /\ hoy = 1
    /\ \E estado \in {"solicitado", "entregado"} :
          /\ movimientos = << FilaInicial(estado) >>
          /\ movimientos_eventos = << EventosIniciales(estado) >>
    /\ resultado = ""
    /\ llamadas = [p \in Llamadas |-> LlamadaInicial]
    /\ folio_generado = SinFolio
    /\ prestamos = <<>>

SelectFila ==
    \E p \in Llamadas, operacion \in {"entregar", "rechazar", "devolver"}, m \in {1, 2} :
        t_select_fila(p, operacion, m, 2)
Verificar == \E p \in Llamadas : t_verificar(p)
Escribir == \E p \in Llamadas : t_escribir(p)

NextCarrera ==
    \/ SelectFila
    \/ Verificar
    \/ Escribir

SpecCarrera == InitCarrera /\ [][NextCarrera]_vars

\* -------------------------------------------- solicitar_prestamo by statement

\* solicitar_prestamo works on one connection: its SELECTs run outside any
\* transaction and the INSERT is committed on its own.  Only the occupation
\* query and the count of PENDIENTE loans read rows that another call writes.

\* Call p up to the occupation query (lines 1134-1232) and the catalogue
\* lookups that follow it (1234-1274): the message returned, or the call goes
\* on to the count of PENDIENTE loans.
p_select_ocupacion(p, sol) ==
    LET msg == solicitar_prestamo_msg(sol)
        sigue == msg \in { "Ya existe una solicitud pendiente para este vehiculo.",
                           "Solicitud de prestamo registrada." }
    IN
    /\ llamadas[p].pc = "inicio"
    /\ llamadas' = [llamadas EXCEPT ![p] =
          [@ EXCEPT !.req = sol,
                    !.msg = IF sigue THEN "" ELSE msg,
                    !.pc  = IF sigue THEN "pendientes" ELSE "retorno"]]
    /\ UNCHANGED <<hoy, movimientos, movimientos_eventos, resultado, folio_generado, prestamos>>

\* The SELECT COUNT(*) of the PENDIENTE loans of the triple (1276-1283).
p_select_pendientes(p) ==
    /\ llamadas[p].pc = "pendientes"
    /\ llamadas' = [llamadas EXCEPT ![p] =
          IF pendientes(llamadas[p].req) > 0
          THEN [@ EXCEPT !.pc = "retorno",
                         !.msg = "Ya existe una solicitud pendiente para este vehiculo."]
          ELSE [@ EXCEPT !.pc = "insertar"]]
    /\ UNCHANGED <<hoy, movimientos, movimientos_eventos, resultado, folio_generado, prestamos>>

\* The INSERT and the commit (1285-1306).
p_insertar(p) ==
    /\ llamadas[p].pc = "insertar"
    /\ prestamos' = Append(prestamos, FilaPrestamo(llamadas[p].req))
    /\ llamadas' = [llamadas EXCEPT ![p] =
          [@ EXCEPT !.pc = "retorno", !.msg = "Solicitud de prestamo registrada."]]
    /\ UNCHANGED <<hoy, movimientos, movimientos_eventos, resultado, folio_generado>>

\* A Monday; user 1 has requested vehicle 2, which is not yet delivered.
InitCarreraPrestamo ==
    /\ hoy = 1
    /\ movimientos = << [FilaInicial("solicitado") EXCEPT !.vehiculo_id = 2] >>
    /\ movimientos_eventos = << EventosIniciales("solicitado") >>
    /\ resultado = ""
    /\ llamadas = [p \in Llamadas |-> LlamadaInicial]
    /\ folio_generado = SinFolio
    /\ prestamos = <<>>

SelectOcupacion ==
    \E p \in Llamadas, propietario_id \in {4, 5}, d \in {hoy, hoy + 1, hoy + 2} :
        p_select_ocupacion(p, SolicitudPrestamo(1, propietario_id, << Num(d) >>))
SelectPendientes == \E p \in Llamadas : p_select_pendientes(p)
InsertarPrestamo == \E p \in Llamadas : p_insertar(p)

NextCarreraPrestamo ==
    \/ SelectOcupacion
    \/ SelectPendientes
    \/ InsertarPrestamo
    \/ EntregarUno
    \/ DevolverUno

SpecCarreraPrestamo == InitCarreraPrestamo /\ [][NextCarreraPrestamo]_vars

\* ------------------------------------------ the vehicle check of solicitar

\* Movement forms of a user without assignments and of the two users vehicle
\* 2 is assigned to, for each vehicle and for a day that is or is not allowed.
FormulariosUnidad ==
    { [FormularioBase(Num(d)) EXCEPT !.usuario_id = u, !.vehiculo_raw = Num(v)] :
        u \in {1, 4, 5}, v \in {1, 2, 3}, d \in {hoy, hoy + 1, hoy + 2} }

PostearUnidad == \E form \in FormulariosUnidad : solicitar(form)

NextUnidad ==
    \/ PostearUnidad
    \/ PostearPrestamo

SpecUnidad == InitPrestamo /\ [][NextUnidad]_vars

\* -------------------------------------------------- listar_vehiculos_prestables

\* listar_vehiculos_prestables(solicitante_id): <<vehiculo_id, propietario_id>>
\* for every assignment of an active vehicle to an active user other than the
\* solicitor, the vehicle having no movement delivered and not returned.
listar_vehiculos_prestables(solicitante_id) ==
    { <<uv[2], uv[1]>> :
        uv \in { x \in usuarios_vehiculos :
                   /\ x[2] \in VehiculosActivos
                   /\ x[1] \in UsuariosActivos
                   /\ x[1] # solicitante_id
                   /\ ~\E m \in DOMAIN movimientos :
                         /\ movimientos[m].vehiculo_id = x[2]
                         /\ movimientos[m].fecha_entrega # NULL
                         /\ movimientos[m].devuelto = 0 } }

\* C21: an insert of a movement whose folio is already taken does not fail:
\* the allocation and the insert are tried again.
C21_BoundedRetry ==
    [][ ( /\ \E m \in DOMAIN movimientos : movimientos[m].folio = generar_folio
          /\ \E fecha_solicitud \in 0..(MaxDia + 1) :
                crear_movimiento_insertar(1, 1, fecha_solicitud) )
        => resultado' # "IntegrityError" ]_vars

\* ------------------------------------------------------ the ledger only grows

\* The ledger of m is an initial part of its ledger in the next state.
LedgerCrece(m) ==
    /\ m \in DOMAIN movimientos_eventos'
    /\ Len(movimientos_eventos[m]) <= Len(movimientos_eventos'[m])
    /\ \A i \in 1..Len(movimientos_eventos[m]) :
          movimientos_eventos'[m][i] = movimientos_eventos[m][i]

\* C22 as stated: no step of the program or of the maintenance script updates
\* or deletes a ledger row.
C22_Original ==
    [][\A m \in DOMAIN movimientos_eventos : LedgerCrece(m)]_vars

\* C22 amended: no operation of the program updates or deletes a ledger row;
\* the maintenance script deletes every ledger row together with every
\* movement; so a movement keeps its events for as long as it is in the store.
C22_LedgerGrows ==
    [][ /\ movimientos' # <<>> =>
              \A m \in DOMAIN movimientos_eventos : LedgerCrece(m)
        /\ resultado' # "Historial de movimientos limpiado." =>
              \A m \in DOMAIN movimientos_eventos : LedgerCrece(m)
        /\ DOMAIN movimientos_eventos' = DOMAIN movimientos' ]_vars

\* On day 2 a movement delivered on day 1 has been returned and still has its
\* ENTREGADO event of day 1.
C22_Witness ==
    /\ hoy = 2
    /\ resultado = "Devolucion registrada."
    /\ \E m \in DOMAIN movimientos :
          /\ Eventos(m) = <<"SOLICITADO", "ENTREGADO", "DEVUELTO">>
          /\ movimientos_eventos[m][2].fecha = 1

\* ------------------------------------------------------ availability

\* A PENDING loan holds vehicle v.
PrestamoPendiente(v) ==
    \E l \in DOMAIN prestamos :
        prestamos[l].vehiculo_id = v /\ prestamos[l].estado = "PENDIENTE"

\* An open movement (delivered, not returned, not rejected) holds vehicle v.
MovimientoAbierto(v) ==
    \E m \in DOMAIN movimientos : movimientos[m].vehiculo_id = v /\ Abierto(m)

\* C23 as stated: the listing has an active vehicle exactly when no open
\* movement and no PENDING loan holds it, and the available count is the
\* number of those vehicles.
C23_Original ==
    /\ \A v \in VehiculosActivos :
          v \in listar_vehiculos_disponibles
             <=> (~MovimientoAbierto(v) /\ ~PrestamoPendiente(v))
    /\ contar_vehiculos_disponibles[2] =
          Cardinality({ v \in VehiculosActivos :
                           ~MovimientoAbierto(v) /\ ~PrestamoPendiente(v) })

\* C23 amended: the listing has an active vehicle exactly when no open
\* movement holds it, whatever loans there are, and the available count is
\* the number of those vehicles.
C23_AvailableListing ==
    /\ \A v \in VehiculosActivos :
          v \in listar_vehiculos_disponibles <=> ~MovimientoAbierto(v)
    /\ contar_vehiculos_disponibles[1] = Cardinality(VehiculosActivos)
    /\ contar_vehiculos_disponibles[2] =
          Cardinality({ v \in VehiculosActivos : ~MovimientoAbierto(v) })

\* Vehicle 2 is held by a PENDING loan and by no open movement, and is listed.
C23_Witness ==
    /\ PrestamoPendiente(2)
    /\ \E m \in DOMAIN movimientos : movimientos[m].vehiculo_id = 2 /\ Devuelto(m)
    /\ 2 \in listar_vehiculos_disponibles
    /\ contar_vehiculos_disponibles = <<2, 2>>

\* ------------------------------------------------------ validation at submission

\* A PENDING loan asks for vehicle v on day d.
PrestamoPendienteEl(v, d) ==
    \E l \in DOMAIN prestamos :
        /\ prestamos[l].vehiculo_id = v
        /\ prestamos[l].estado = "PENDIENTE"
        /\ \E i \in 1..Len(prestamos[l].fechas_solicitadas) :
              prestamos[l].fechas_solicitadas[i] = d

\* The messages with which a request is rejected.
Rechazos == UNION { ErroresRegla[k] : k \in 1..8 } \cup ErroresSolicitud

\* C24: a movement request for vehicle V and day D is rejected when it is
\* posted while a PENDING loan asks for V on D or an open movement holds V.
C24_SubmissionAuthoritative ==
    \A d \in hoy..(hoy + Horizonte) :
        (PrestamoPendienteEl(2, d) \/ MovimientoAbierto(2)) =>
           solicitar_msg([FormularioBase(Num(d)) EXCEPT !.vehiculo_raw = Num(2)])
              \in Rechazos

\* ------------------------------------------------------ loans of one's own vehicle

\* C25: a loan request whose solicitor is the owner fails and adds no loan,
\* whatever the other arguments and the store are, at solicitar_prestamo and
\* at the handler.
C25_SelfBorrow ==
    /\ [](/\ \A sol \in SolicitudesPrestamo :
              sol.solicitante_id = sol.propietario_id =>
                 solicitar_prestamo_msg(sol)
                    = "No puede solicitar un prestamo de su propio vehiculo."
          /\ \A form \in FormulariosPrestamo :
              (form.propietario_raw.num /\ form.propietario_raw.n = form.usuario_id) =>
                 solicitar_es_prestamo_msg(form) \in
                    { "Falta seleccionar la unidad.",
                      "Seleccione una unidad asignada a otro usuario para el prestamo." })
    /\ [][ resultado' \in { "No puede solicitar un prestamo de su propio vehiculo.",
                            "Falta seleccionar la unidad.",
                            "Seleccione una unidad asignada a otro usuario para el prestamo." }
             => UNCHANGED Store ]_vars

\* A loan of his own vehicle was refused to a solicitor while the store has a
\* PENDING loan of the same vehicle to another solicitor.
C25_Witness ==
    /\ resultado = "No puede solicitar un prestamo de su propio vehiculo."
    /\ PrestamoPendiente(2)

\* C26: requests completed one after another never leave two PENDIENTE loans
\* for the same solicitor, owner and vehicle; a request whose triple has a
\* PENDIENTE loan is not accepted, and the refusal for that reason adds no row.
MismaTerna(a, b) ==
    /\ a.solicitante_id = b.solicitante_id
    /\ a.propietario_id = b.propietario_id
    /\ a.vehiculo_id = b.vehiculo_id

C26_OnePending ==
    /\ [](/\ \A i, j \in DOMAIN prestamos :
                (/\ prestamos[i].estado = "PENDIENTE"
                 /\ prestamos[j].estado = "PENDIENTE"
                 /\ MismaTerna(prestamos[i], prestamos[j])) => i = j
          /\ \A sol \in SolicitudesPrestamo :
                (\E l \in DOMAIN prestamos :
                    prestamos[l].estado = "PENDIENTE" /\ MismaTerna(prestamos[l], sol))
                => solicitar_prestamo_msg(sol) # "Solicitud de prestamo registrada."
          /\ \A form \in FormulariosPrestamo :
                (/\ form.propietario_raw.num
                 /\ form.vehiculo_raw.num
                 /\ \E l \in DOMAIN prestamos :
                       /\ prestamos[l].estado = "PENDIENTE"
                       /\ prestamos[l].solicitante_id = form.usuario_id
                       /\ prestamos[l].propietario_id = form.propietario_raw.n
                       /\ prestamos[l].vehiculo_id = form.vehiculo_raw.n)
                => solicitar_es_prestamo_msg(form) # "Solicitud de prestamo registrada.")
    /\ [][resultado' = "Ya existe una solicitud pendiente para este vehiculo."
            => UNCHANGED Store]_vars

\* A second request for a pending triple has been refused while another
\* triple of the same vehicle also has its loan.
C26_Witness ==
    /\ resultado = "Ya existe una solicitud pendiente para este vehiculo."
    /\ Len(prestamos) = 2

\* C27: every loan row has its vehicle assigned to its owner and not to its
\* solicitor; a request whose vehicle is not assigned to the owner, or is
\* assigned to the solicitor, is not accepted and changes no table.
C27_AssignmentSets ==
    /\ [](/\ \A l \in DOMAIN prestamos :
                /\ <<prestamos[l].propietario_id, prestamos[l].vehiculo_id>>
                       \in usuarios_vehiculos
                /\ <<prestamos[l].solicitante_id, prestamos[l].vehiculo_id>>
                       \notin usuarios_vehiculos
          /\ \A sol \in SolicitudesPrestamo :
                (\/ <<sol.propietario_id, sol.vehiculo_id>> \notin usuarios_vehiculos
                 \/ <<sol.solicitante_id, sol.vehiculo_id>> \in usuarios_vehiculos)
                => solicitar_prestamo_msg(sol) # "Solicitud de prestamo registrada."
          /\ \A form \in FormulariosPrestamo :
                (/\ form.propietario_raw.num
                 /\ form.vehiculo_raw.num
                 /\ \/ <<form.propietario_raw.n, form.vehiculo_raw.n>>
                           \notin usuarios_vehiculos
                    \/ <<form.usuario_id, form.vehiculo_raw.n>> \in usuarios_vehiculos)
                => solicitar_es_prestamo_msg(form) # "Solicitud de prestamo registrada.")
    /\ [][resultado' \in { "El vehiculo no esta asignado al usuario seleccionado.",
                           "El vehiculo ya esta asignado al solicitante." }
            => UNCHANGED Store]_vars

\* A request by a user who shares the vehicle with its owner has been refused
\* while a loan of that vehicle to another user is pending.
C27_Witness ==
    /\ resultado = "El vehiculo ya esta asignado al solicitante."
    /\ prestamos # <<>>

\* A request naming a user the vehicle is not assigned to has been refused.
C27_WitnessOwner ==
    /\ resultado = "El vehiculo no esta asignado al usuario seleccionado."
    /\ prestamos # <<>>

\* The business days a loan can be asked for on day d0: Monday to Friday,
\* after d0, with at most DiasPrestamo business days from d0 + 1 to the day.
EnVentanaPrestamo(d0, d) ==
    /\ d > d0
    /\ dia_semana(d) < 5
    /\ Cardinality({ e \in (d0 + 1)..d : dia_semana(e) < 5 }) <= DiasPrestamo

\* The refusal that names movement m as the one occupying its vehicle.
OcupadoPor(m) ==
    "El vehiculo esta ocupado desde " \o ToString(movimientos[m].fecha_entrega) \o ". ("
        \o ToString(IF hoy > movimientos[m].fecha_entrega
                    THEN hoy - movimientos[m].fecha_entrega ELSE 0) \o " dias)"

EntregadoSinDevolver(m) ==
    movimientos[m].fecha_entrega # NULL /\ movimientos[m].devuelto = 0

\* A request nothing is wrong with but, perhaps, the state of its vehicle.
PrestamoBienFormado(sol) ==
    /\ sol = SolicitudPrestamo(sol.solicitante_id, sol.propietario_id, sol.fechas_solicitadas)
    /\ <<sol.solicitante_id, sol.propietario_id>> \in { <<1, 4>>, <<1, 5>> }
    /\ Len(sol.fechas_solicitadas) = 1
    /\ sol.fechas_solicitadas[1].num
    /\ EnVentanaPrestamo(hoy, sol.fechas_solicitadas[1].n)

C28_WitnessDevuelto ==
    /\ prestamos # <<>>
    /\ resultado = "Solicitud de prestamo registrada."
    /\ \E m \in DOMAIN movimientos :
          /\ movimientos[m].vehiculo_id = 2
          /\ movimientos[m].devuelto = 1
          /\ movimientos[m].fecha_devolucion = hoy

\* C29: a loan request is accepted only with exactly one date, a day in the
\* DiasPrestamo business days after today; no date, several dates, today, a
\* weekend day or a later day are refused and change no table, and every loan
\* row holds one date in the window of the day it was asked on.
C29_SingleDateWindow ==
    /\ [](/\ \A sol \in SolicitudesPrestamo :
                solicitar_prestamo_msg(sol) = "Solicitud de prestamo registrada."
                => /\ Len(sol.fechas_solicitadas) = 1
                   /\ sol.fechas_solicitadas[1].num
                   /\ EnVentanaPrestamo(hoy, sol.fechas_solicitadas[1].n)
          /\ \A form \in FormulariosPrestamo :
                solicitar_es_prestamo_msg(form) = "Solicitud de prestamo registrada."
                => /\ form.fecha_solicitud.num
                   /\ EnVentanaPrestamo(hoy, form.fecha_solicitud.n)
          /\ \A l \in DOMAIN prestamos :
                /\ Len(prestamos[l].fechas_solicitadas) = 1
                /\ EnVentanaPrestamo(prestamos[l].fecha_solicitud,
                                     prestamos[l].fechas_solicitadas[1])
          /\ \A fechas \in ListasDeFechas :
                solicitar_prestamo_msg(SolicitudPrestamo(1, 4, fechas))
                   \in { "Falta el dato de fechas.",
                         "Formato de fecha no valido para el prestamo.",
                         "Solo se permite solicitar un dia por prestamo.",
                         "Las fechas deben estar dentro de los siguientes 4 dias habiles." }
                <=> ~(/\ Len(fechas) = 1
                      /\ fechas[1].num
                      /\ EnVentanaPrestamo(hoy, fechas[1].n)))
    /\ [][resultado' \in { "Falta el dato de fechas.",
                           "Formato de fecha no valido para el prestamo.",
                           "Solo se permite solicitar un dia por prestamo.",
                           "Las fechas deben estar dentro de los siguientes 4 dias habiles." }
            => UNCHANGED Store]_vars

\* A request for a day outside the window has been refused on a Thursday,
\* when the window runs over the weekend, with a loan already pending.
C29_Witness ==
    /\ resultado = "Las fechas deben estar dentro de los siguientes 4 dias habiles."
    /\ dia_semana(hoy) = 3
    /\ prestamos # <<>>
    /\ \E l \in DOMAIN prestamos : prestamos[l].fechas_solicitadas[1] > hoy + DiasPrestamo

C30_WitnessFinal ==
    /\ resultado = "El prestamo no esta pendiente."
    /\ \E l \in DOMAIN prestamos : prestamos[l].estado = "RECHAZADO"

\* The users whose session has one of the given roles.
UsuariosDeRol(roles) == { ses[2] : ses \in { x \in Sesiones : x[1] \in roles } }

\* The events a step adds to the ledger of the movements that were there.
EventosNuevos ==
    { movimientos_eventos'[m][Len(movimientos_eventos'[m])] :
        m \in { x \in DOMAIN movimientos_eventos :
                  Len(movimientos_eventos'[x]) > Len(movimientos_eventos[x]) } }

\* C31 as claimed: every delivery, rejection and return is the act of a
\* session with role admin.
C31_Original ==
    [][\A e \in EventosNuevos :
          e.evento \in {"ENTREGADO", "RECHAZADO", "DEVUELTO"}
          => e.usuario_id \in UsuariosDeRol({"admin"})]_vars

\* C31: a delivery or a rejection is the act of a session with role admin or
\* monitor, a return of a session with role admin, and a movement or a loan is
\* requested by a session with role user; a session turned away changes no
\* table.
C31_RoleGates ==
    [][/\ \A e \in EventosNuevos :
             /\ e.evento \in {"ENTREGADO", "RECHAZADO"}
                => e.usuario_id \in UsuariosDeRol({"admin", "monitor"})
             /\ e.evento = "DEVUELTO" => e.usuario_id \in UsuariosDeRol({"admin"})
             /\ e.evento \in {"ENTREGADO", "RECHAZADO", "DEVUELTO"}
       /\ Len(movimientos') > Len(movimientos)
          => movimientos'[Len(movimientos')].usuario_id \in UsuariosDeRol({"user"})
       /\ Len(prestamos') > Len(prestamos)
          => prestamos'[Len(prestamos')].solicitante_id \in UsuariosDeRol({"user"})
       /\ resultado' = "redirect dashboard" => UNCHANGED Store]_vars

\* The monitor delivered a movement, the administrator returned it, a loan
\* was requested, and a session has been turned away.
C31_Witness ==
    /\ resultado = "redirect dashboard"
    /\ prestamos # <<>>
    /\ \E m \in DOMAIN movimientos_eventos :
          /\ \E i \in 1..Len(movimientos_eventos[m]) :
                /\ movimientos_eventos[m][i].evento = "ENTREGADO"
                /\ movimientos_eventos[m][i].usuario_id = 6
          /\ \E i \in 1..Len(movimientos_eventos[m]) :
                /\ movimientos_eventos[m][i].evento = "DEVUELTO"
                /\ movimientos_eventos[m][i].usuario_id = 2

\* The movements of the vehicle of m that satisfy a condition.
DelMismoVehiculo(m, Cond(_)) ==
    { x \in DOMAIN movimientos :
         movimientos[x].vehiculo_id = movimientos[m].vehiculo_id /\ Cond(x) }

\* Requested and neither delivered, returned nor rejected.
SoloSolicitado(m) == ~Entregado(m) /\ ~Devuelto(m) /\ ~Rechazado(m)

C32_WitnessAbiertos ==
    /\ Len(movimientos) >= 2
    /\ movimientos[1].vehiculo_id = movimientos[2].vehiculo_id
    /\ Abierto(1) /\ Abierto(2)
    /\ ~conflicto(NULL, 1)

\* The dates of the events of one kind in the ledger of m.
FechasDe(m, evento) ==
    { movimientos_eventos[m][i].fecha :
        i \in { k \in 1..Len(movimientos_eventos[m]) :
                  movimientos_eventos[m][k].evento = evento } }

\* C33: the alert flag of a movement is true exactly when the movement was
\* delivered, has not been returned, and ALERTA_DIAS_NO_DEVUELTO days or more
\* have passed since the day of its delivery; it is false for a movement not
\* delivered, for a returned one and one day short of the threshold.
C33_AlertFlag ==
    \A m \in DOMAIN movimientos :
        /\ alerta(m, ALERTA_DIAS_NO_DEVUELTO)
           <=> /\ FechasDe(m, "DEVUELTO") = {}
               /\ \E d \in FechasDe(m, "ENTREGADO") : hoy - d >= ALERTA_DIAS_NO_DEVUELTO
        /\ FechasDe(m, "ENTREGADO") = {} => ~alerta(m, ALERTA_DIAS_NO_DEVUELTO)
        /\ FechasDe(m, "DEVUELTO") # {} => ~alerta(m, ALERTA_DIAS_NO_DEVUELTO)
        /\ (\E d \in FechasDe(m, "ENTREGADO") : hoy - d = ALERTA_DIAS_NO_DEVUELTO - 1)
           => ~alerta(m, ALERTA_DIAS_NO_DEVUELTO)

\* A movement delivered exactly ALERTA_DIAS_NO_DEVUELTO days ago, still out,
\* is flagged.
C33_Witness ==
    \E m \in DOMAIN movimientos :
        /\ alerta(m, ALERTA_DIAS_NO_DEVUELTO)
        /\ FechasDe(m, "ENTREGADO") = { hoy - ALERTA_DIAS_NO_DEVUELTO }
        /\ FechasDe(m, "DEVUELTO") = {}

\* A movement out for one day less is not flagged, and one returned after the
\* threshold is not flagged either.
C33_WitnessBelow ==
    \E m \in DOMAIN movimientos :
        /\ ~alerta(m, ALERTA_DIAS_NO_DEVUELTO)
        /\ FechasDe(m, "ENTREGADO") = { hoy - ALERTA_DIAS_NO_DEVUELTO + 1 }
        /\ FechasDe(m, "DEVUELTO") = {}

\* C34: with the calls on one movement interleaved statement by statement,
\* its ledger never holds both ENTREGADO and RECHAZADO, nor two events of the
\* same kind.
C34_ConcurrentTransitions ==
    \A m \in DOMAIN movimientos_eventos :
        /\ ~(Cuenta(m, "ENTREGADO") > 0 /\ Cuenta(m, "RECHAZADO") > 0)
        /\ \A evento \in {"ENTREGADO", "RECHAZADO", "DEVUELTO"} : Cuenta(m, evento) <= 1

\* C35: with the statements of concurrent loan requests and a delivery
\* interleaved, the store never holds two PENDIENTE loans for one solicitor,
\* owner and vehicle, and no loan row is inserted for a vehicle that has a
\* delivered, unreturned movement at the time of the insert.
C35_ConcurrentLoans ==
    /\ [](\A i, j \in DOMAIN prestamos :
            (/\ prestamos[i].estado = "PENDIENTE"
             /\ prestamos[j].estado = "PENDIENTE"
             /\ MismaTerna(prestamos[i], prestamos[j])) => i = j)
    /\ [][Len(prestamos') > Len(prestamos)
            => ocupacion(prestamos'[Len(prestamos')].vehiculo_id) = NULL]_vars

\* C36: after any completed requests, deliveries, rejections and returns the
\* row of a movement and its ledger agree: the row has a delivery date exactly
\* when the ledger has exactly one ENTREGADO event, its returned flag is set
\* exactly when it has a return date and the ledger exactly one DEVUELTO
\* event, and a set returned flag implies a delivery date.
C36_RowLedgerAgree ==
    \A m \in DOMAIN movimientos :
        /\ movimientos[m].fecha_entrega # NULL <=> Cuenta(m, "ENTREGADO") = 1
        /\ movimientos[m].devuelto = 1
           <=> (movimientos[m].fecha_devolucion # NULL /\ Cuenta(m, "DEVUELTO") = 1)
        /\ movimientos[m].devuelto = 1 => movimientos[m].fecha_entrega # NULL
        /\ movimientos[m].devuelto \in {0, 1}

\* One movement has been delivered and returned and another rejected, and a
\* second return of the first has been refused.
C36_Witness ==
    /\ resultado = "El movimiento ya esta devuelto."
    /\ \E m \in DOMAIN movimientos :
          /\ movimientos[m].devuelto = 1
          /\ Cuenta(m, "ENTREGADO") = 1
          /\ Cuenta(m, "DEVUELTO") = 1
    /\ \E m \in DOMAIN movimientos :
          /\ Cuenta(m, "RECHAZADO") = 1
          /\ movimientos[m].fecha_entrega = NULL

\* C37: a movement form gets past the vehicle check of solicitar only if its
\* vehicle is active and is assigned to the user or the user has no assignment;
\* a form failing this never gets the answer of crear_movimiento, a form with
\* an allowed day passing it does get past the check, and no movement row is
\* added for a vehicle the user could not ask for.
C37_VehicleCheck ==
    /\ [](\A form \in FormulariosUnidad :
            /\ solicitar_validacion(form) = "" => VehiculoDelSolicitante(form)
            /\ ~VehiculoDelSolicitante(form)
               => solicitar_msg(form) \in
                     { "La unidad seleccionada no es valida.",
                       "La fecha de salida debe estar dentro de los dias habiles permitidos." }
            /\ (VehiculoDelSolicitante(form) /\ fecha_laboral_valida(form.fecha_solicitud))
               => solicitar_validacion(form) = "")
    /\ [][/\ resultado' = "La unidad seleccionada no es valida." => UNCHANGED Store
          /\ Len(movimientos') > Len(movimientos)
             => LET fila == movimientos'[Len(movimientos')] IN
                /\ fila.vehiculo_id \in VehiculosActivos
                /\ \/ \A uv \in usuarios_vehiculos : uv[1] # fila.usuario_id
                   \/ <<fila.usuario_id, fila.vehiculo_id>> \in usuarios_vehiculos]_vars

\* A form has been refused for its vehicle while a loan of vehicle 2 is
\* pending and a user with an assignment could ask for vehicle 2 only.
C37_Witness ==
    /\ resultado = "La unidad seleccionada no es valida."
    /\ prestamos # <<>>
    /\ \E form \in FormulariosUnidad :
          /\ form.usuario_id = 4
          /\ form.vehiculo_raw.n = 1
          /\ solicitar_msg(form) = "La unidad seleccionada no es valida."
    /\ \E form \in FormulariosUnidad :
          /\ form.usuario_id = 4
          /\ form.vehiculo_raw.n = 2
          /\ solicitar_validacion(form) = ""

\* The first day a loan can be asked for today.
PrimerDiaPrestamo ==
    CHOOSE d \in (hoy + 1)..(hoy + 3) :
        /\ EnVentanaPrestamo(hoy, d)
        /\ \A e \in (hoy + 1)..(d - 1) : ~EnVentanaPrestamo(hoy, e)

\* C38: for every vehicle and owner that listar_vehiculos_prestables offers to
\* a solicitor, solicitar_prestamo by that solicitor for that vehicle and owner
\* is refused in the same state neither as a loan of the solicitor's own
\* vehicle, nor for the owner's or the solicitor's assignment, nor for the
\* vehicle being out.
C38_LoanableListing ==
    \A solicitante_id \in UsuariosActivos :
        \A par \in listar_vehiculos_prestables(solicitante_id) :
            LET sol == [SolicitudPrestamo(solicitante_id, par[2], << Num(PrimerDiaPrestamo) >>)
                          EXCEPT !.vehiculo_id = par[1]]
            IN  /\ solicitar_prestamo_msg(sol)
                      \notin { "No puede solicitar un prestamo de su propio vehiculo.",
                               "El vehiculo no esta asignado al usuario seleccionado.",
                               "El vehiculo ya esta asignado al solicitante." }
                /\ \A m \in DOMAIN movimientos : solicitar_prestamo_msg(sol) # OcupadoPor(m)

====
